---- MODULE Spec2Model ----
(***************************************************************************)
(* A model of stacker (Noojuno/stacker): the trailer codec, the stack      *)
(* builder and the submit / edit commands, translated from the TypeScript  *)
(* sources.                                                                *)
(*                                                                         *)
(* Strings are sequences of one-character strings, so that the regular     *)
(* expressions, split("\n"), join("\n"), startsWith and the template       *)
(* strings of the source are computed character by character.  A JS Map is *)
(* a sequence of <<key, value>> pairs with pairwise distinct keys, in      *)
(* insertion order.  An optional value is <<>> (undefined) or <<v>>.       *)
(***************************************************************************)
EXTENDS Integers, Sequences, FiniteSets, TLC

VARIABLES
    \* --- trailer codec session (SpecTrailers) ---
    message,        \* the commit message text the codec is applied to
    previous,       \* the text before the last operation
    newTrailers,    \* the mapping handed to setTrailers
    ops,            \* the operations applied so far, oldest first
    \* --- repository, review service and command options ---
    chain,          \* first-parent history of the current branch, oldest
                    \* first: chain[1] is the merge base with remote/target,
                    \* the commits after it are the branch's own
    currentBranch,  \* git rev-parse --abbrev-ref HEAD
    prs,            \* review service: Map head branch -> number of its PR
    optBase,        \* the --base option: <<>> or <<index into chain>>
    target,         \* the --target option
    \* --- stack builder (SpecBuild) ---
    stack,          \* the Stack the last buildStack returned, <<>> before it
    prevStack,      \* the Stack the buildStack before it returned
    builds,         \* number of buildStack calls so far
    unchanged,      \* the last build saw the repository and the service
                    \* as the build before it did
    dirty,          \* repository or service written since the last build
    \* --- commands on a repository (SpecSubmit) ---
    rebase,         \* the paused rebase: <<>>, or <<[branch, orig, todo]>>
                    \* while .git/rebase-merge exists
    remoteBranches, \* remote: Map branch name -> sha it points at
    prBase,         \* review service: Map PR number -> its base branch
    nextSha,        \* the hash the next commit object gets
    gitLog,         \* what the last command issued, oldest first
    lastCommand,    \* the last command run
    before,         \* chain and rebase as the last command found them
    commands,       \* number of commands run so far
    \* --- one run of rebaseWithTrailers (SpecRewrite) ---
    pc,             \* the statement the run is at
    files,          \* the temp files of the invocation that exist
    messageFiles,   \* messagesDir: the messages written, file 0 first
    counter,        \* the number in the counter file
    commitList,     \* the commits handed to rebaseWithTrailers
    pending,        \* the todo lines the rebase has not done yet
    thrown,         \* the error on its way up: <<>> or <<its name>>
    reported,       \* what handleError has reported: <<>> or <<name>>
    \* --- land, and pushes against a remote that others push to (SpecLand) ---
    prData,         \* what gh pr view returns for the PR asked about
    force,          \* the --force option
    dryRun,         \* the --dry-run option
    tracking,       \* remote-tracking refs: Map branch -> sha last seen
    pushes,         \* every git push so far: branch, sha, the local view
                    \* of the remote branch, what the remote had, outcome
    landPos,        \* the entry land is rebasing
    merged,         \* the PR numbers merged
    moves,          \* pushes by others to the remote so far
    all,            \* land --all
    \* --- the description of a PR, regenerated (SpecBody) ---
    prBody,         \* the description of the PR
    prevBody,       \* the description before the last regeneration
    currentIndex,   \* the index of the PR's entry in the stack, from 0
    regenerations   \* number of regenerations so far

trailerVars == <<message, previous, newTrailers, ops>>

envVars == <<chain, currentBranch, prs, optBase, target>>

buildVars == <<stack, prevStack, builds, unchanged, dirty>>

submitVars == <<rebase, remoteBranches, prBase, nextSha, gitLog, lastCommand,
                before, commands>>

submitVarsButRemote == <<rebase, prBase, gitLog, lastCommand, before, commands>>

rewriteVars == <<pc, files, messageFiles, counter, commitList, pending, thrown,
                 reported>>

landVars == <<prData, force, dryRun, tracking, pushes, landPos, merged, moves, all>>

bodyVars == <<prBody, prevBody, currentIndex, regenerations>>

vars == <<trailerVars, envVars, buildVars, submitVars, rewriteVars, landVars, bodyVars>>

(***************************************************************************)
(* Characters and strings                                                  *)
(***************************************************************************)
NL == "\n"

Lower == {"a","b","c","d","e","f","g","h","i","j","k","l","m",
          "n","o","p","q","r","s","t","u","v","w","x","y","z"}

Upper == {"A","B","C","D","E","F","G","H","I","J","K","L","M",
          "N","O","P","Q","R","S","T","U","V","W","X","Y","Z"}

Digit == {"0","1","2","3","4","5","6","7","8","9"}

\* the characters the regular expression's "." does not match
LineTerminator == {"\n", "\r"}

\* [A-Za-z]
IsAlpha(c) == c \in Lower \cup Upper

\* [A-Za-z0-9-]
IsKeyChar(c) == c \in Lower \cup Upper \cup Digit \cup {"-"}

\* String.prototype.startsWith
StartsWith(s, prefix) ==
    /\ Len(s) >= Len(prefix)
    /\ SubSeq(s, 1, Len(prefix)) = prefix

\* String.prototype.split("\n"): always at least one element
RECURSIVE SplitFrom(_, _, _)
SplitFrom(s, i, cur) ==
    IF i > Len(s) THEN <<cur>>
    ELSE IF s[i] = NL THEN <<cur>> \o SplitFrom(s, i + 1, <<>>)
    ELSE SplitFrom(s, i + 1, Append(cur, s[i]))

Split(s) == SplitFrom(s, 1, <<>>)

\* Array.prototype.join("\n")
RECURSIVE Join(_)
Join(lines) ==
    IF Len(lines) = 0 THEN <<>>
    ELSE IF Len(lines) = 1 THEN lines[1]
    ELSE lines[1] \o <<NL>> \o Join(Tail(lines))

(***************************************************************************)
(* JS Map: insertion-ordered, keys unique                                  *)
(***************************************************************************)
MapHas(m, k) == \E i \in 1..Len(m) : m[i][1] = k

\* Map.prototype.get: <<>> when absent, <<value>> when present
MapGet(m, k) ==
    IF MapHas(m, k)
    THEN <<m[CHOOSE i \in 1..Len(m) : m[i][1] = k][2]>>
    ELSE <<>>

\* Map.prototype.set: an existing key keeps its position and takes the value
MapSet(m, k, v) ==
    IF MapHas(m, k)
    THEN [i \in 1..Len(m) |-> IF m[i][1] = k THEN <<k, v>> ELSE m[i]]
    ELSE Append(m, <<k, v>>)

MapKeys(m) == {m[i][1] : i \in 1..Len(m)}

\* new Map([...a, ...b])
RECURSIVE MapMerge(_, _)
MapMerge(a, b) ==
    IF Len(b) = 0 THEN a
    ELSE MapMerge(MapSet(a, b[1][1], b[1][2]), Tail(b))

(***************************************************************************)
(* Trailer codec                                                           *)
(***************************************************************************)
TRAILER_PREFIX == <<"S","t","a","c","k","e","r","-">>

TRAILER_KEY_BRANCH == TRAILER_PREFIX \o <<"B","r","a","n","c","h">>

TRAILER_KEY_PR == TRAILER_PREFIX \o <<"P","R">>

TRAILER_KEY_DEPENDS_ON == TRAILER_PREFIX \o <<"D","e","p","e","n","d","s","-","O","n">>

\* the length of the longest prefix of line matching [A-Za-z][A-Za-z0-9-]*
RECURSIVE KeyLenFrom(_, _)
KeyLenFrom(line, i) ==
    IF i > Len(line) THEN i - 1
    ELSE IF i = 1 /\ ~IsAlpha(line[i]) THEN 0
    ELSE IF ~IsKeyChar(line[i]) THEN i - 1
    ELSE KeyLenFrom(line, i + 1)

KeyLen(line) == KeyLenFrom(line, 1)

\* line.match(/^([A-Za-z][A-Za-z0-9-]*): (.+)$/) succeeds
TrailerMatch(line) ==
    LET n == KeyLen(line) IN
    /\ n >= 1
    /\ Len(line) >= n + 3
    /\ line[n + 1] = ":"
    /\ line[n + 2] = " "
    /\ \A j \in (n + 3)..Len(line) : line[j] \notin LineTerminator

\* match[1] and match[2]
TrailerKey(line) == SubSeq(line, 1, KeyLen(line))

TrailerValue(line) == SubSeq(line, KeyLen(line) + 3, Len(line))

\* the backward loop of parseTrailers, from index i down to 1
RECURSIVE ParseLoop(_, _, _, _)
ParseLoop(lines, i, inTrailerBlock, trailers) ==
    IF i < 1 THEN trailers
    ELSE IF lines[i] = <<>>
    THEN IF inTrailerBlock THEN trailers
         ELSE ParseLoop(lines, i - 1, inTrailerBlock, trailers)
    ELSE IF TrailerMatch(lines[i])
    THEN ParseLoop(lines, i - 1, TRUE,
                   IF MapHas(trailers, TrailerKey(lines[i])) THEN trailers
                   ELSE MapSet(trailers, TrailerKey(lines[i]), TrailerValue(lines[i])))
    ELSE IF inTrailerBlock THEN trailers
    ELSE ParseLoop(lines, i - 1, inTrailerBlock, trailers)

parseTrailers(commitMessage) ==
    LET lines == Split(commitMessage) IN
    ParseLoop(lines, Len(lines), FALSE, <<>>)

RECURSIVE FilterPrefixed(_)
FilterPrefixed(m) ==
    IF Len(m) = 0 THEN <<>>
    ELSE IF StartsWith(m[1][1], TRAILER_PREFIX)
    THEN <<m[1]>> \o FilterPrefixed(Tail(m))
    ELSE FilterPrefixed(Tail(m))

getStackerTrailers(commitMessage) == FilterPrefixed(parseTrailers(commitMessage))

\* the backward loop of setTrailers: the index where the trailers start
RECURSIVE SetScan(_, _, _)
SetScan(lines, i, trailerStartIndex) ==
    IF i < 1 THEN trailerStartIndex
    ELSE IF lines[i] = <<>>
    THEN IF trailerStartIndex < Len(lines) + 1 THEN trailerStartIndex
         ELSE SetScan(lines, i - 1, trailerStartIndex)
    ELSE IF TrailerMatch(lines[i]) THEN SetScan(lines, i - 1, i)
    ELSE trailerStartIndex

\* the forward loop of setTrailers over lines[i..]: the existing trailers
RECURSIVE ExistingTrailers(_, _, _)
ExistingTrailers(lines, i, acc) ==
    IF i > Len(lines) THEN acc
    ELSE IF TrailerMatch(lines[i])
    THEN ExistingTrailers(lines, i + 1,
                          MapSet(acc, TrailerKey(lines[i]), TrailerValue(lines[i])))
    ELSE ExistingTrailers(lines, i + 1, acc)

\* a body whose trailing empty lines are kept
PopBlank_KeepsBlank(body) == body

\* while (body.length > 0 && !body[body.length - 1]) body.pop()
RECURSIVE PopBlank(_)
PopBlank(body) ==
    IF Len(body) > 0 /\ body[Len(body)] = <<>>
    THEN PopBlank(SubSeq(body, 1, Len(body) - 1))
    ELSE body

\* `${key}: ${value}` for every entry of the map
TrailerLines(m) == [i \in 1..Len(m) |-> m[i][1] \o <<":", " ">> \o m[i][2]]

\* a merge in which the existing value of a key wins
MergeTrailers_ExistingWins(existingTrailers, trailers) ==
    MapMerge(trailers, existingTrailers)

\* new Map([...existingTrailers, ...trailers]): new ones override existing
MergeTrailers(existingTrailers, trailers) ==
    MapMerge(existingTrailers, trailers)

setTrailers(commitMessage, trailers) ==
    LET lines == Split(commitMessage)
        \* indices are 1-based: Len(lines) + 1 is the source's lines.length
        trailerStartIndex == SetScan(lines, Len(lines), Len(lines) + 1)
        existingTrailers == ExistingTrailers(lines, trailerStartIndex, <<>>)
        mergedTrailers == MergeTrailers(existingTrailers, trailers)
        bodyLines == PopBlank(SubSeq(lines, 1, trailerStartIndex - 1))
        trailerLines == TrailerLines(mergedTrailers)
    IN  IF Len(trailerLines) > 0
        THEN Join(bodyLines \o <<(<<>>)>> \o trailerLines)
        ELSE Join(bodyLines)

\* the backward loop of stripStackerTrailers; the result is
\* <<trailerBlockStart, nonStackerTrailers>>, trailerBlockStart 0 standing
\* for the source's -1 (indices are 1-based)
RECURSIVE StripScan(_, _, _, _)
StripScan(lines, i, inTrailerBlock, nonStackerTrailers) ==
    IF i < 1 THEN <<0, nonStackerTrailers>>
    ELSE IF lines[i] = <<>>
    THEN IF inTrailerBlock THEN <<i + 1, nonStackerTrailers>>
         ELSE StripScan(lines, i - 1, inTrailerBlock, nonStackerTrailers)
    ELSE IF TrailerMatch(lines[i])
    THEN StripScan(lines, i - 1, TRUE,
                   IF StartsWith(TrailerKey(lines[i]), TRAILER_PREFIX)
                   THEN nonStackerTrailers
                   ELSE <<lines[i]>> \o nonStackerTrailers)
    ELSE IF inTrailerBlock THEN <<i + 1, nonStackerTrailers>>
    ELSE StripScan(lines, i - 1, inTrailerBlock, nonStackerTrailers)

stripStackerTrailers(commitMessage) ==
    LET lines == Split(commitMessage)
        scan == StripScan(lines, Len(lines), FALSE, <<>>)
        trailerBlockStart == scan[1]
        nonStackerTrailers == scan[2]
        body == PopBlank(SubSeq(lines, 1, trailerBlockStart - 1))
    IN  IF trailerBlockStart = 0 THEN commitMessage
        ELSE IF Len(nonStackerTrailers) > 0
        THEN Join(body \o <<(<<>>)>> \o nonStackerTrailers)
        ELSE Join(body)

(***************************************************************************)
(* The codec applied to commit messages: SpecTrailers                      *)
(*                                                                         *)
(* A message is any text of at most MaxLines lines over LineChoices; the   *)
(* codec's two writers are applied to it at most MaxOps times, as submit   *)
(* (setTrailers, submit.ts:348) and land (stripStackerTrailers,            *)
(* part_002:186) apply them to the message a commit carries.               *)
(***************************************************************************)
MaxLines == 3

MaxOps == 2

BlankLine == <<>>

\* a line of body text, not of trailer shape
TextLine == <<"F","i","x">>

\* a malformed trailer: no space after the colon
MalformedLine == <<"k",":","v">>

\* lines of trailer shape whose key is not reserved, such as a
\* conventional-commit subject; two values of one key
FixLineA == <<"f","i","x",":"," ","a">>

FixLineB == <<"f","i","x",":"," ","b">>

\* lines of trailer shape with reserved keys
PrLine == TRAILER_KEY_PR \o <<":"," ","7">>

BranchLine == TRAILER_KEY_BRANCH \o <<":"," ","s","/","2">>

LineChoices == {BlankLine, TextLine, MalformedLine, FixLineA, FixLineB, PrLine, BranchLine}

RECURSIVE SeqsUpTo(_, _)
SeqsUpTo(S, n) ==
    IF n = 0 THEN {<<>>}
    ELSE LET shorter == SeqsUpTo(S, n - 1) IN
         shorter \cup {Append(s, x) : s \in {t \in shorter : Len(t) = n - 1}, x \in S}

Messages == {Join(ls) : ls \in SeqsUpTo(LineChoices, MaxLines)}

\* the mappings written: keys of trailer shape, values non-empty, one line
TrailerMappings ==
    { <<>>,
      << <<TRAILER_KEY_BRANCH, <<"s","/","1">>>> >>,
      << <<TRAILER_KEY_BRANCH, <<"s","/","1">>>>, <<TRAILER_KEY_PR, <<"8">>>> >>,
      << <<<<"f","i","x">>, <<"c">>>>, <<TRAILER_KEY_DEPENDS_ON, <<"o">>>> >> }

\* the variables of the other specifications, at rest
IdleEnv ==
    /\ chain = <<>>
    /\ currentBranch = <<>>
    /\ prs = <<>>
    /\ optBase = <<>>
    /\ target = <<>>

IdleBuild ==
    /\ stack = <<>>
    /\ prevStack = <<>>
    /\ builds = 0
    /\ unchanged = TRUE
    /\ dirty = FALSE

IdleSubmit ==
    /\ rebase = <<>>
    /\ remoteBranches = <<>>
    /\ prBase = <<>>
    /\ nextSha = 0
    /\ gitLog = <<>>
    /\ lastCommand = ""
    /\ before = <<>>
    /\ commands = 0

IdleBody ==
    /\ prBody = <<>>
    /\ prevBody = <<>>
    /\ currentIndex = 0
    /\ regenerations = 0

IdleLand ==
    /\ prData = <<>>
    /\ force = FALSE
    /\ dryRun = FALSE
    /\ tracking = <<>>
    /\ pushes = <<>>
    /\ landPos = 0
    /\ merged = {}
    /\ moves = 0
    /\ all = FALSE

IdleRewrite ==
    /\ pc = ""
    /\ files = {}
    /\ messageFiles = <<>>
    /\ counter = 0
    /\ commitList = <<>>
    /\ pending = <<>>
    /\ thrown = <<>>
    /\ reported = <<>>

InitTrailers ==
    /\ message \in Messages
    /\ previous = message
    /\ newTrailers \in TrailerMappings
    /\ ops = <<>>
    /\ IdleEnv
    /\ IdleBuild
    /\ IdleSubmit
    /\ IdleRewrite
    /\ IdleLand
    /\ IdleBody

\* submit.ts:348: the rewritten commit carries setTrailers(original, trailers)
SetTrailers ==
    /\ Len(ops) < MaxOps
    /\ message' = setTrailers(message, newTrailers)
    /\ previous' = message
    /\ ops' = Append(ops, "set")
    /\ UNCHANGED <<bodyVars, landVars, rewriteVars, newTrailers, envVars, buildVars, submitVars>>

\* part_002:186: land takes the squash message from stripStackerTrailers
StripStackerTrailers ==
    /\ Len(ops) < MaxOps
    /\ message' = stripStackerTrailers(message)
    /\ previous' = message
    /\ ops' = Append(ops, "strip")
    /\ UNCHANGED <<bodyVars, landVars, rewriteVars, newTrailers, envVars, buildVars, submitVars>>

NextTrailers == SetTrailers \/ StripStackerTrailers

SpecTrailers == InitTrailers /\ [][NextTrailers]_vars

LastOp == IF Len(ops) = 0 THEN "none" ELSE ops[Len(ops)]

\* the key -> value pairs of a map, the order of insertion forgotten
MapPairs(m) == {m[i] : i \in 1..Len(m)}

\* a map restricted to the keys outside the reserved prefix
RECURSIVE FilterNotPrefixed(_)
FilterNotPrefixed(m) ==
    IF Len(m) = 0 THEN <<>>
    ELSE IF StartsWith(m[1][1], TRAILER_PREFIX)
    THEN FilterNotPrefixed(Tail(m))
    ELSE <<m[1]>> \o FilterNotPrefixed(Tail(m))

(***************************************************************************)
(* Claims about the codec (SpecTrailers)                                   *)
(***************************************************************************)

\* C1: trailer round trip.  After setTrailers(m, t) every key of t is
\* reported by parseTrailers of the result, with the value t gives it.
C1_TrailerRoundTrip ==
    LastOp = "set" =>
        \A i \in 1..Len(newTrailers) :
            MapGet(parseTrailers(message), newTrailers[i][1]) = <<newTrailers[i][2]>>

\* C1 witness: a set that wrote Stacker-PR: 8 over a message whose block
\* held Stacker-PR: 7.
C1_Witness ==
    /\ LastOp = "set"
    /\ MapGet(parseTrailers(previous), TRAILER_KEY_PR) = <<<<"7">>>>
    /\ MapGet(newTrailers, TRAILER_KEY_PR) = <<<<"8">>>>
    /\ MapGet(parseTrailers(message), TRAILER_KEY_PR) = <<<<"8">>>>

\* C2: setTrailers is idempotent.  A second setTrailers with the same
\* mapping returns the text the first returned.
C2_SetIdempotent ==
    (Len(ops) >= 2 /\ ops[Len(ops)] = "set" /\ ops[Len(ops) - 1] = "set")
        => message = previous

\* C2 witness: two sets in a row of a two-key mapping on a message that
\* also carries a trailer of its own and body text.
C2_Witness ==
    /\ ops = <<"set", "set">>
    /\ Len(newTrailers) = 2
    /\ MapHas(parseTrailers(message), <<"f","i","x">>)
    /\ Split(message)[1] = TextLine
    /\ message = previous

\* C3: trailer isolation of set.  Every key parseTrailers reports for m and
\* that is not a key of t is reported for setTrailers(m, t) with its value.
C3_SetKeepsUnrelated ==
    LastOp = "set" =>
        \A k \in MapKeys(parseTrailers(previous)) \ MapKeys(newTrailers) :
            MapGet(parseTrailers(message), k) = MapGet(parseTrailers(previous), k)

\* C4: stripStackerTrailers removes exactly the reserved-prefix trailers:
\* parseTrailers of the result is parseTrailers of the message restricted
\* to the keys outside "Stacker-", and the result has a trailer block iff
\* that restriction is not empty.
C4_StripRemovesExactlyPrefixed ==
    LastOp = "strip" =>
        LET kept == FilterNotPrefixed(parseTrailers(previous)) IN
        /\ MapPairs(parseTrailers(message)) = MapPairs(kept)
        /\ (parseTrailers(message) # <<>>) <=> (kept # <<>>)

(***************************************************************************)
(* Numbers and whitespace                                                  *)
(***************************************************************************)
Whitespace == {" ", "\n", "\t", "\r"}

RECURSIVE TrimStart(_)
TrimStart(s) ==
    IF Len(s) > 0 /\ s[1] \in Whitespace THEN TrimStart(Tail(s)) ELSE s

RECURSIVE TrimEnd(_)
TrimEnd(s) ==
    IF Len(s) > 0 /\ s[Len(s)] \in Whitespace
    THEN TrimEnd(SubSeq(s, 1, Len(s) - 1))
    ELSE s

\* String.prototype.trim
Trim(s) == TrimEnd(TrimStart(s))

DigitChars == <<"0","1","2","3","4","5","6","7","8","9">>

\* String(n) of a natural number
RECURSIVE NumToString(_)
NumToString(n) ==
    IF n < 10 THEN <<DigitChars[n + 1]>>
    ELSE NumToString(n \div 10) \o <<DigitChars[(n % 10) + 1]>>

DigitValue(c) == (CHOOSE d \in 1..10 : DigitChars[d] = c) - 1

\* the value parseInt gives a text that does not start with a number
NaN == -1

RECURSIVE ParseDigits(_, _, _)
ParseDigits(s, i, acc) ==
    IF i > Len(s) \/ s[i] \notin Digit THEN acc
    ELSE ParseDigits(s, i + 1, acc * 10 + DigitValue(s[i]))

\* parseInt(s, 10) of an unsigned text: leading whitespace skipped, the
\* leading digits read
ParseInt(s) ==
    LET t == TrimStart(s) IN
    IF Len(t) = 0 \/ t[1] \notin Digit THEN NaN ELSE ParseDigits(t, 1, 0)

\* the truthiness of a number: neither 0 nor NaN
Truthy(n) == n # 0 /\ n # NaN

(***************************************************************************)
(* Git accessor, over the chain                                            *)
(***************************************************************************)
\* parseCommit: subject is %s, body is %B trimmed (the slice from line 3
\* starts at the first line of %B, so body holds the whole message)
parseCommit(c) ==
    [sha |-> c.sha,
     subject |-> Split(c.message)[1],
     body |-> Trim(c.message)]

\* git merge-base <ref> remote/target, for a ref on the current branch
getMergeBase == 1

\* a range base..head that takes the base commit in too
CommitsInRange_WithBase(ch, base, head) ==
    [i \in 1..(IF head >= base THEN head - base + 1 ELSE 0) |-> parseCommit(ch[base + i - 1])]

\* git log --reverse base..head over history ch, each commit parsed
CommitsInRange(ch, base, head) ==
    [i \in 1..(IF head > base THEN head - base ELSE 0) |-> parseCommit(ch[base + i])]

\* getCommitsInRange(base, head): the commits after base up to head
getCommitsInRange(base, head) == CommitsInRange(chain, base, head)

\* the index HEAD resolves to
HeadIndex == Len(chain)

\* findPRByBranch: null is <<>>
findPRByBranch(headBranch) == MapGet(prs, headBranch)

(***************************************************************************)
(* Stack builder                                                           *)
(***************************************************************************)
StackSlash == <<"s","t","a","c","k","/">>

\* the index of the last "/" of s, 0 when there is none
RECURSIVE LastSlashFrom(_, _)
LastSlashFrom(s, i) ==
    IF i < 1 THEN 0
    ELSE IF s[i] = "/" THEN i
    ELSE LastSlashFrom(s, i - 1)

LastSlash(s) == LastSlashFrom(s, Len(s))

\* branchName.match(/^stack\/(.+?)\/\d+$/) succeeds
StackBranchMatch(branchName) ==
    LET j == LastSlash(branchName) IN
    /\ StartsWith(branchName, StackSlash)
    /\ j >= Len(StackSlash) + 2
    /\ Len(branchName) > j
    /\ \A k \in (j + 1)..Len(branchName) : branchName[k] \in Digit
    /\ \A k \in (Len(StackSlash) + 1)..(j - 1) : branchName[k] \notin LineTerminator

isStackBranch(branchName) == StackBranchMatch(branchName)

extractStackName(branchName) ==
    IF StackBranchMatch(branchName)
    THEN SubSeq(branchName, Len(StackSlash) + 1, LastSlash(branchName) - 1)
    ELSE branchName

\* a name whose position counts from 0
generateStackBranchName_ZeroBased(baseBranch, index) ==
    StackSlash \o baseBranch \o <<"/">> \o NumToString(index - 1)

\* `stack/${baseBranch}/${index}`
generateStackBranchName(baseBranch, index) ==
    StackSlash \o baseBranch \o <<"/">> \o NumToString(index)

\* detectDependency: <<>> is null
detectDependency(curBranch) ==
    LET baseCommit == parseCommit(chain[getMergeBase])
        trailers == getStackerTrailers(baseCommit.body)
        baseStackBranch == MapGet(trailers, TRAILER_KEY_BRANCH)
    IN  IF baseStackBranch = <<>> THEN <<>>
        ELSE LET baseStackName == extractStackName(baseStackBranch[1])
                 currentStackName == extractStackName(curBranch)
                 prNumStr == MapGet(trailers, TRAILER_KEY_PR)
             IN  IF baseStackName # currentStackName
                 THEN <<[stackName |-> baseStackName,
                         topBranch |-> baseStackBranch[1],
                         prNumber |-> IF prNumStr # <<>>
                                      THEN <<ParseInt(prNumStr[1])>> ELSE <<>>,
                         autoDetected |-> TRUE]>>
                 ELSE <<>>

\* a branch name that is always generated
EntryBranchName_AlwaysGenerated(trailers, stackName, position) ==
    generateStackBranchName(stackName, position)

\* the entry's branch name: the trailer's, or a generated one
EntryBranchName(trailers, stackName, position) ==
    LET branchName == MapGet(trailers, TRAILER_KEY_BRANCH) IN
    IF branchName # <<>> THEN branchName[1]
    ELSE generateStackBranchName(stackName, position)

\* the entry's PR number: the trailer's, or the one looked up by branch
EntryPrNumber(trailers, branchName) ==
    LET prNumStr == MapGet(trailers, TRAILER_KEY_PR)
        foundPr == findPRByBranch(branchName)
    IN  IF prNumStr # <<>> THEN <<ParseInt(prNumStr[1])>>
        ELSE IF foundPr # <<>> /\ Truthy(foundPr[1]) THEN foundPr
        ELSE <<>>

\* a bottom entry that targets the configured target even under a dependency
EntryTargetBranch_IgnoresDependency(position, entries, dependsOn, tgt) ==
    IF position = 1 THEN tgt ELSE entries[position - 1].branchName

\* the branch the entry's PR merges into
EntryTargetBranch(position, entries, dependsOn, tgt) ==
    IF position = 1
    THEN IF dependsOn # <<>> THEN dependsOn[1].topBranch ELSE tgt
    ELSE entries[position - 1].branchName

\* the loop of buildStack over the commits, position counting from 1
RECURSIVE BuildEntries(_, _, _, _, _, _)
BuildEntries(commits, position, entries, stackName, dependsOn, tgt) ==
    IF position > Len(commits) THEN entries
    ELSE LET commit == commits[position]
             trailers == getStackerTrailers(commit.body)
             branchName == EntryBranchName(trailers, stackName, position)
             entry == [commit |-> commit,
                       prNumber |-> EntryPrNumber(trailers, branchName),
                       branchName |-> branchName,
                       targetBranch |-> EntryTargetBranch(position, entries, dependsOn, tgt)]
         IN  BuildEntries(commits, position + 1, Append(entries, entry),
                          stackName, dependsOn, tgt)

\* the base of the range: the option, or the merge base
RangeBase(base) == IF base # <<>> THEN base[1] ELSE getMergeBase

\* buildStack({base, head: "HEAD", target, remote}); prUrl, which is only
\* displayed, is left out of the entries
buildStack(base, tgt) ==
    LET stackName == extractStackName(currentBranch)
        commits == getCommitsInRange(RangeBase(base), HeadIndex)
        dependsOn == detectDependency(currentBranch)
    IN  [name |-> stackName,
         entries |-> BuildEntries(commits, 1, <<>>, stackName, dependsOn, tgt),
         target |-> tgt,
         dependsOn |-> dependsOn]

(***************************************************************************)
(* The stack builder over small repositories                               *)
(***************************************************************************)
MaxCommits == 3
MaxBuilds == 2
MaxPrs == 1

Main == <<"m","a","i","n">>
Dev == <<"d","e","v">>
FeatureBranch == <<"f">>
FeatureStackBranch == <<"s","t","a","c","k","/","f","/","9">>
BranchF1 == <<"s","t","a","c","k","/","f","/","1">>
BranchF3 == <<"s","t","a","c","k","/","f","/","3">>
BranchG5 == <<"s","t","a","c","k","/","g","/","5">>
BranchO2 == <<"s","t","a","c","k","/","o","/","2">>

\* merge-base commits: plain, on top of another stack (with and without
\* the stack/ prefix), and on top of an entry of the stack being built
BaseMessages ==
    { <<"B","a","s","e">>,
      <<"B","a","s","e","\n","\n","S","t","a","c","k","e","r","-","B","r","a","n","c","h",":"," ","s","t","a","c","k","/","o","/","2","\n","S","t","a","c","k","e","r","-","P","R",":"," ","4">>,
      <<"B","a","s","e","\n","\n","S","t","a","c","k","e","r","-","B","r","a","n","c","h",":"," ","o","/","2">>,
      <<"B","a","s","e","\n","\n","S","t","a","c","k","e","r","-","B","r","a","n","c","h",":"," ","s","t","a","c","k","/","f","/","1">> }

\* commits of the range: without trailers, with both trailers
RangeMessages ==
    { <<"A">>,
      <<"B","\n","\n","S","t","a","c","k","e","r","-","B","r","a","n","c","h",":"," ","s","t","a","c","k","/","g","/","5","\n","S","t","a","c","k","e","r","-","P","R",":"," ","9">> }

Chains ==
    { <<b>> \o r : b \in BaseMessages, r \in SeqsUpTo(RangeMessages, MaxCommits) }

\* the commits of message sequence ms, their hashes in chain order
WithShas(ms) == [i \in 1..Len(ms) |-> [sha |-> i, message |-> ms[i]]]

PrBranches == {BranchF1, BranchG5}

BaseOptions(n) == {<<>>} \cup { <<b>> : b \in 1..(IF n < 2 THEN n ELSE 2) }

IdleTrailers ==
    /\ message = <<>>
    /\ previous = <<>>
    /\ newTrailers = <<>>
    /\ ops = <<>>

InitBuild ==
    /\ IdleTrailers
    /\ \E ms \in Chains : chain = WithShas(ms)
    /\ currentBranch \in {FeatureBranch, FeatureStackBranch}
    /\ prs = <<>>
    /\ optBase \in BaseOptions(Len(chain))
    /\ target \in {Main, Dev}
    /\ IdleBuild
    /\ IdleSubmit
    /\ IdleRewrite
    /\ IdleLand
    /\ IdleBody

\* a command builds the stack of the current branch
BuildStack ==
    /\ builds < MaxBuilds
    /\ stack' = buildStack(optBase, target)
    /\ prevStack' = stack
    /\ unchanged' = ~dirty
    /\ dirty' = FALSE
    /\ builds' = builds + 1
    /\ UNCHANGED <<bodyVars, landVars, rewriteVars, trailerVars, envVars, submitVars>>

\* the number the review service gives the next PR
NextPrNumberOf(service) ==
    LET used == { service[i][2] : i \in 1..Len(service) } IN
    IF used = {} THEN 1 ELSE 1 + (CHOOSE n \in used : \A m \in used : m <= n)

NextPrNumber == NextPrNumberOf(prs)

\* createPR: the review service gets a PR for head branch headBranch
CreatePR ==
    /\ Len(prs) < MaxPrs
    /\ \E headBranch \in PrBranches :
        /\ ~MapHas(prs, headBranch)
        /\ prs' = MapSet(prs, headBranch, NextPrNumber)
    /\ dirty' = TRUE
    /\ UNCHANGED <<bodyVars, landVars, rewriteVars, trailerVars, chain, currentBranch, optBase, target,
                   stack, prevStack, builds, unchanged, submitVars>>

NextBuild == BuildStack \/ CreatePR

SpecBuild == InitBuild /\ [][NextBuild]_vars

Built == builds >= 1

Entries == stack.entries

\* the entries' commits carry no Stacker trailers
NoEntryTrailers ==
    \A i \in 1..Len(Entries) : getStackerTrailers(Entries[i].commit.body) = <<>>

(***************************************************************************)
(* C5: in every Stack buildStack returns, each entry after the first       *)
(* targets the branch of the entry below it, and the first entry targets   *)
(* the top branch of the detected dependency, or the configured target     *)
(* when no dependency was detected.                                        *)
(***************************************************************************)
C5_StackOrdering ==
    Built =>
        /\ \A i \in 2..Len(Entries) :
               Entries[i].targetBranch = Entries[i - 1].branchName
        /\ Len(Entries) >= 1 =>
               Entries[1].targetBranch =
                   IF stack.dependsOn # <<>>
                   THEN stack.dependsOn[1].topBranch
                   ELSE target

\* a stack of two entries or more built on top of another stack
C5_Witness ==
    /\ Built
    /\ Len(Entries) >= 2
    /\ stack.dependsOn # <<>>
    /\ Entries[1].targetBranch = BranchO2
    /\ Entries[2].targetBranch = Entries[1].branchName

ThreePlainCommits ==
    /\ Built
    /\ Len(Entries) = 3
    /\ NoEntryTrailers
    /\ target = Main
    /\ prs = <<>>

\* the merge-base commit declares a branch of another stack
MergeBaseOnOtherStack ==
    LET declared == MapGet(getStackerTrailers(parseCommit(chain[getMergeBase]).body),
                           TRAILER_KEY_BRANCH)
    IN  /\ declared # <<>>
        /\ extractStackName(declared[1]) # extractStackName(currentBranch)

RangeBaseCommit == parseCommit(chain[RangeBase(optBase)])

(***************************************************************************)
(* C8: when the base commit of the range the entries were taken from       *)
(* declares a branch whose stack name differs from the current stack's,    *)
(* the Stack depends on that stack (its name, the declared branch as top   *)
(* branch, detected automatically); when the names are equal or the base   *)
(* commit declares no branch, the Stack has no dependency.                 *)
(***************************************************************************)
C8_DependencyFromRangeBase ==
    Built =>
        LET declared == MapGet(getStackerTrailers(RangeBaseCommit.body),
                               TRAILER_KEY_BRANCH)
        IN  IF declared # <<>> /\ extractStackName(declared[1]) # stack.name
            THEN /\ stack.dependsOn # <<>>
                 /\ stack.dependsOn[1].stackName = extractStackName(declared[1])
                 /\ stack.dependsOn[1].topBranch = declared[1]
                 /\ stack.dependsOn[1].autoDetected
            ELSE stack.dependsOn = <<>>

(***************************************************************************)
(* submit                                                                  *)
(***************************************************************************)
\* what git rev-parse --abbrev-ref HEAD prints on a detached HEAD
DetachedHead == <<"H","E","A","D">>

isRebaseInProgress == rebase # <<>>

\* git log -1 --format=%B sha, as execStdout returns it (trimmed)
getCommitMessage(ch, sha) ==
    LET i == CHOOSE j \in 1..Len(ch) : ch[j].sha = sha IN Trim(ch[i].message)

\* getRemoteBranchSha: the sha the remote branch points at, <<>> when the
\* remote has no such branch
getRemoteBranchSha(remote, branchName) == MapGet(remote, branchName)

\* one command issued to git or to the review service
LogEntry(cmd, ref, sha, ok) == [cmd |-> cmd, ref |-> ref, sha |-> sha, ok |-> ok]

\* the run of submitCommand from the built stack on: repository, remote
\* and service as the run has left them so far, its local variables, and
\* whether a call has thrown
StartOfRun(stk) ==
    [chain |-> chain, prs |-> prs, prBase |-> prBase, remote |-> remoteBranches,
     nextSha |-> nextSha, log |-> <<>>, failed |-> FALSE, objects |-> chain,
     entries |-> stk.entries, prNumbers |-> <<>>, newPrsCreated |-> FALSE]

\* phase 1: the PR number of each entry, looked up when the entry has none
LookupPrNumbers(entries) ==
    [i \in 1..Len(entries) |->
        IF entries[i].prNumber # <<>> /\ Truthy(entries[i].prNumber[1])
        THEN entries[i].prNumber
        ELSE findPRByBranch(entries[i].branchName)]

\* String(prNumbers[i] ?? '')
PrNumberString(prNumber) ==
    IF prNumber = <<>> THEN <<>> ELSE NumToString(prNumber[1])

\* existingPr !== String(prNumbers[i] ?? '') || existingBranch !== branchName:
\* a trailer that is missing is undefined, which differs from every string
TrailersDiffer(entry, prNumber) ==
    LET existingTrailers == getStackerTrailers(entry.commit.body)
        existingPr == MapGet(existingTrailers, TRAILER_KEY_PR)
        existingBranch == MapGet(existingTrailers, TRAILER_KEY_BRANCH)
    IN  \/ existingPr = <<>>
        \/ existingPr[1] # PrNumberString(prNumber)
        \/ existingBranch # <<entry.branchName>>

\* phase 2: some commit needs its trailers updated
needsRebase(entries, prNumbers) ==
    \E i \in 1..Len(entries) : TrailersDiffer(entries[i], prNumbers[i])

\* the trailers rebaseWithTrailers gives a commit
TargetTrailers(c) ==
    LET branch == <<<<TRAILER_KEY_BRANCH, c.branchName>>>>
        withPr == IF c.prNumber # <<>> /\ Truthy(c.prNumber[1])
                  THEN MapSet(branch, TRAILER_KEY_PR, NumToString(c.prNumber[1]))
                  ELSE branch
    IN  IF c.dependsOn # <<>> /\ c.dependsOn[1] # <<>>
        THEN MapSet(withPr, TRAILER_KEY_DEPENDS_ON, c.dependsOn[1])
        ELSE withPr

\* the commits handed to rebaseWithTrailers
RewordList(entries, prNumbers, dependsOn) ==
    [i \in 1..Len(entries) |->
        [sha |-> entries[i].commit.sha,
         branchName |-> entries[i].branchName,
         prNumber |-> prNumbers[i],
         dependsOn |-> IF i = 1 /\ dependsOn # <<>>
                       THEN <<dependsOn[1].stackName>> ELSE <<>>]]

\* git rebase -i base under the todo "reword sha" per commit: history ch
\* up to base, then one new commit per todo line, the k-th with the k-th
\* precomputed message. Every reworded commit is a new object (its
\* committer date is new); conflicts between contents are not modelled.
RewordedChain(ch, objects, base, commits, firstSha) ==
    SubSeq(ch, 1, base) \o
    [k \in 1..Len(commits) |->
        [sha |-> firstSha + k - 1,
         message |-> setTrailers(getCommitMessage(objects, commits[k].sha),
                                 TargetTrailers(commits[k]))]]

\* the commits a rewrite adds to the object database, which keeps the old ones
NewObjects(objects, rewritten, base) ==
    objects \o SubSeq(rewritten, base + 1, Len(rewritten))

\* rebaseWithTrailers: git refuses a rebase while another is in progress
rebaseWithTrailers(run, base, commits) ==
    IF isRebaseInProgress
    THEN [run EXCEPT !.log = Append(@, LogEntry("rebase -i", <<>>, run.chain[base].sha, FALSE)),
                     !.failed = TRUE]
    ELSE [run EXCEPT !.chain = RewordedChain(run.chain, run.objects, base, commits, run.nextSha),
                     !.objects = NewObjects(@, RewordedChain(run.chain, run.objects, base,
                                                             commits, run.nextSha), base),
                     !.nextSha = @ + Len(commits),
                     !.log = Append(@, LogEntry("rebase -i", <<>>, run.chain[base].sha, TRUE))]

\* the entries keep the commits read before the rebase
RereadCommits_KeepsOld(run, mergeBase) == run

\* re-read the commits after a rebase: entry i takes the i-th commit of
\* mergeBase..HEAD when there is one
RereadCommits(run, mergeBase) ==
    LET newCommits == CommitsInRange(run.chain, mergeBase, Len(run.chain)) IN
    [run EXCEPT !.entries =
        [i \in 1..Len(run.entries) |->
            IF i <= Len(newCommits)
            THEN [run.entries[i] EXCEPT !.commit = newCommits[i]]
            ELSE run.entries[i]]]

\* phases 3 and 5: entries first..last whose remote branch is not at the
\* entry's commit get their branch created there and pushed
RECURSIVE PushEntries(_, _, _)
PushEntries(run, first, last) ==
    IF first > last THEN run
    ELSE LET entry == run.entries[first]
             remoteCommitSha == getRemoteBranchSha(run.remote, entry.branchName)
             needsPush == remoteCommitSha # <<entry.commit.sha>>
             pushed == [run EXCEPT
                 !.remote = MapSet(@, entry.branchName, entry.commit.sha),
                 !.log = @ \o <<LogEntry("branch", entry.branchName, entry.commit.sha, TRUE),
                                LogEntry("push", entry.branchName, entry.commit.sha, TRUE)>>]
         IN  PushEntries(IF needsPush THEN pushed ELSE run, first + 1, last)

\* phase 4: the PR of each entry from position on is updated, or created
\* when the entry has no PR number; gh fails on a number it does not know
RECURSIVE SyncPRs(_, _)
SyncPRs(run, position) ==
    IF position > Len(run.entries) THEN run
    ELSE LET entry == run.entries[position]
             prNumber == run.prNumbers[position]
             created == NextPrNumberOf(run.prs)
         IN  IF prNumber # <<>> /\ Truthy(prNumber[1])
             THEN IF MapHas(run.prBase, prNumber[1])
                  THEN SyncPRs([run EXCEPT
                           !.prBase = MapSet(@, prNumber[1], entry.targetBranch),
                           !.entries[position].prNumber = prNumber,
                           !.log = Append(@, LogEntry("pr edit", entry.targetBranch, prNumber[1], TRUE))],
                       position + 1)
                  ELSE [run EXCEPT
                           !.failed = TRUE,
                           !.log = Append(@, LogEntry("pr view", <<>>, prNumber[1], FALSE))]
             ELSE SyncPRs([run EXCEPT
                      !.prs = MapSet(@, entry.branchName, created),
                      !.prBase = MapSet(@, created, entry.targetBranch),
                      !.entries[position].prNumber = <<created>>,
                      !.prNumbers[position] = <<created>>,
                      !.newPrsCreated = TRUE,
                      !.log = Append(@, LogEntry("pr create", entry.branchName, created, TRUE))],
                  position + 1)

\* phase 6: the body of every entry's PR is written again (the bodies
\* themselves are not part of the service's state here)
RECURSIVE UpdateBodies(_, _)
UpdateBodies(run, position) ==
    IF position > Len(run.entries) THEN run
    ELSE LET prNumber == run.entries[position].prNumber IN
         UpdateBodies(
             IF prNumber # <<>> /\ Truthy(prNumber[1])
             THEN [run EXCEPT !.log = Append(@, LogEntry("pr edit", <<>>, prNumber[1], TRUE))]
             ELSE run,
             position + 1)

\* the PR numbers of the entries, as phase 5 hands them on
EntryPrNumbers(entries) == [i \in 1..Len(entries) |-> entries[i].prNumber]

Min(a, b) == IF a < b THEN a ELSE b

\* rebaseWithTrailers and the re-reading of the commits that follows it
Resync(run, mergeBase, commits) ==
    IF isRebaseInProgress
    THEN rebaseWithTrailers(run, mergeBase, commits)
    ELSE RereadCommits(rebaseWithTrailers(run, mergeBase, commits), mergeBase)

\* phase 1
Phase1(stk) ==
    [StartOfRun(stk) EXCEPT !.prNumbers = LookupPrNumbers(stk.entries)]

\* phase 2: the commits are rewritten when some trailers need an update
Phase2(run, stk) ==
    IF needsRebase(run.entries, run.prNumbers)
    THEN Resync(run, getMergeBase, RewordList(run.entries, run.prNumbers, stk.dependsOn))
    ELSE run

\* phase 3
Phase3(run) ==
    IF run.failed THEN run ELSE PushEntries(run, 1, Len(run.entries))

\* phase 4
Phase4(run) ==
    IF run.failed THEN run ELSE SyncPRs(run, 1)

\* the pushes of phase 5, for the entries that have a re-read commit
PushReread(run) ==
    IF run.failed THEN run
    ELSE PushEntries(run, 1, Min(Len(run.entries), Len(run.chain) - getMergeBase))

\* phase 5: with new PRs the commits are rewritten again and pushed
Phase5(run, stk) ==
    IF run.failed \/ ~run.newPrsCreated THEN run
    ELSE PushReread(Resync(run, getMergeBase,
             RewordList(run.entries, EntryPrNumbers(run.entries), stk.dependsOn)))

\* phase 6
Phase6(run) ==
    IF run.failed THEN run ELSE UpdateBodies(run, 1)

\* the finally block: checkout(originalBranch), whatever happened
Finally(run, originalBranch) ==
    [run EXCEPT !.log = Append(@, LogEntry("checkout", originalBranch, 0, TRUE))]

\* submitCommand from phase 1 on, for a stack with entries; a call that
\* throws skips the phases after it
submitCommand(stk) ==
    Finally(Phase6(Phase5(Phase4(Phase3(Phase2(Phase1(stk), stk))), stk)),
            currentBranch)

(***************************************************************************)
(* Commands run one after another on a repository                          *)
(***************************************************************************)
MaxStackCommits == 2
MaxCommands == 3

BasePlain == <<"B","a","s","e">>
BaseOnOtherStack == <<"B","a","s","e","\n","\n","S","t","a","c","k","e","r","-","B","r","a","n","c","h",":"," ","s","t","a","c","k","/","o","/","2","\n","S","t","a","c","k","e","r","-","P","R",":"," ","4">>

\* commits of the branch: never submitted; rewritten by a submit that did
\* not get to its PR; submitted with PR 1
StackMessages ==
    { <<"A">>,
      <<"C","\n","\n","S","t","a","c","k","e","r","-","B","r","a","n","c","h",":"," ","s","t","a","c","k","/","f","/","1">>,
      <<"D","\n","\n","S","t","a","c","k","e","r","-","B","r","a","n","c","h",":"," ","s","t","a","c","k","/","f","/","1","\n","S","t","a","c","k","e","r","-","P","R",":"," ","1">> }

StackChains ==
    { <<b>> \o r : b \in {BasePlain, BaseOnOtherStack},
                   r \in SeqsUpTo(StackMessages, MaxStackCommits) }

\* the review service: without PRs, or with PR 1 of branch stack/f/1
Services ==
    { [prs |-> <<>>, prBase |-> <<>>],
      [prs |-> <<<<BranchF1, 1>>>>, prBase |-> <<<<1, Main>>>>] }

InitSubmit ==
    /\ IdleTrailers
    /\ IdleBuild
    /\ \E ms \in StackChains : chain = WithShas(ms)
    /\ currentBranch = FeatureBranch
    /\ \E service \in Services : prs = service.prs /\ prBase = service.prBase
    /\ optBase \in {<<>>} \cup (IF Len(chain) >= 2 THEN {<<2>>} ELSE {})
    /\ target = Main
    /\ rebase = <<>>
    /\ remoteBranches = <<>>
    /\ nextSha = Len(chain) + 1
    /\ gitLog = <<>>
    /\ lastCommand = ""
    /\ before = <<>>
    /\ commands = 0
    /\ IdleRewrite
    /\ IdleLand
    /\ IdleBody

\* every command counts, and leaves what it found
CommandRun(name) ==
    /\ commands < MaxCommands
    /\ commands' = commands + 1
    /\ lastCommand' = name
    /\ before' = [chain |-> chain, rebase |-> rebase]

\* stacker submit
Submit ==
    /\ CommandRun("submit")
    /\ \E stk \in {buildStack(optBase, target)} :
       IF Len(stk.entries) = 0
       THEN /\ gitLog' = <<>>
            /\ UNCHANGED <<chain, prs, prBase, remoteBranches, nextSha, stack>>
       ELSE \E run \in {submitCommand(stk)} :
            /\ chain' = run.chain
            /\ prs' = run.prs
            /\ prBase' = run.prBase
            /\ remoteBranches' = run.remote
            /\ nextSha' = run.nextSha
            /\ gitLog' = run.log
            /\ stack' = [stk EXCEPT !.entries = run.entries]
    /\ UNCHANGED <<bodyVars, landVars, rewriteVars, trailerVars, currentBranch, optBase, target, rebase,
                   prevStack, builds, unchanged, dirty>>

\* the commits after position from of history ch, picked again onto a new
\* parent
Repicked(ch, from, firstSha) ==
    [k \in 1..(Len(ch) - from) |->
        [sha |-> firstSha + k - 1, message |-> ch[from + k].message]]

\* stacker edit: refused while a rebase is in progress; otherwise the
\* operator cancels, or marks the commit at position of the stack "edit"
\* (the rebase pauses on it) or "drop"
Edit ==
    /\ CommandRun("edit")
    /\ IF isRebaseInProgress
       THEN /\ gitLog' = <<>>
            /\ UNCHANGED <<chain, currentBranch, rebase, nextSha>>
       ELSE \E stk \in {buildStack(optBase, target)} :
            LET rebaseBase == RangeBase(optBase)
                issued == <<LogEntry("rebase -i", <<>>, chain[rebaseBase].sha, TRUE)>>
            IN  \/ /\ gitLog' = <<>>
                   /\ UNCHANGED <<chain, currentBranch, rebase, nextSha>>
                \/ \E position \in 1..Len(stk.entries) :
                       \/ /\ chain' = SubSeq(chain, 1, rebaseBase + position)
                          /\ rebase' = <<[branch |-> currentBranch,
                                          orig |-> chain,
                                          todo |-> SubSeq(chain, rebaseBase + position + 1,
                                                          Len(chain))]>>
                          /\ currentBranch' = DetachedHead
                          /\ gitLog' = issued
                          /\ UNCHANGED nextSha
                       \/ /\ chain' = SubSeq(chain, 1, rebaseBase + position - 1)
                                      \o Repicked(chain, rebaseBase + position, nextSha)
                          /\ nextSha' = nextSha + (Len(chain) - rebaseBase - position)
                          /\ gitLog' = issued
                          /\ UNCHANGED <<currentBranch, rebase>>
    /\ UNCHANGED <<bodyVars, landVars, rewriteVars, trailerVars, prs, optBase, target, buildVars,
                   remoteBranches, prBase>>

\* stacker edit --continue: the rest of the todo is picked
EditContinue ==
    /\ CommandRun("edit --continue")
    /\ IF isRebaseInProgress
       THEN /\ chain' = chain \o rebase[1].todo
            /\ currentBranch' = rebase[1].branch
            /\ rebase' = <<>>
            /\ gitLog' = <<LogEntry("rebase --continue", <<>>, 0, TRUE)>>
       ELSE /\ gitLog' = <<>>
            /\ UNCHANGED <<chain, currentBranch, rebase>>
    /\ UNCHANGED <<bodyVars, landVars, rewriteVars, trailerVars, prs, optBase, target, buildVars,
                   remoteBranches, prBase, nextSha>>

\* stacker edit --abort: the branch is back where the rebase found it
EditAbort ==
    /\ CommandRun("edit --abort")
    /\ IF isRebaseInProgress
       THEN /\ chain' = rebase[1].orig
            /\ currentBranch' = rebase[1].branch
            /\ rebase' = <<>>
            /\ gitLog' = <<LogEntry("rebase --abort", <<>>, 0, TRUE)>>
       ELSE /\ gitLog' = <<>>
            /\ UNCHANGED <<chain, currentBranch, rebase>>
    /\ UNCHANGED <<bodyVars, landVars, rewriteVars, trailerVars, prs, optBase, target, buildVars,
                   remoteBranches, prBase, nextSha>>

NextSubmit == Submit \/ Edit \/ EditContinue \/ EditAbort

SpecSubmit == InitSubmit /\ [][NextSubmit]_vars

\* every commit of the stack already carries the trailers submit computes
\* for it: the entry's branch name, and the entry's PR number or, when
\* the entry has no PR, no PR trailer
StackTrailersCurrent ==
    LET entries == buildStack(optBase, target).entries
        prNumbers == LookupPrNumbers(entries)
    IN  /\ Len(entries) > 0
        /\ \A i \in 1..Len(entries) :
               LET existing == getStackerTrailers(entries[i].commit.body) IN
               /\ MapGet(existing, TRAILER_KEY_BRANCH) = <<entries[i].branchName>>
               /\ MapGet(existing, TRAILER_KEY_PR) =
                      IF prNumbers[i] = <<>> THEN <<>>
                      ELSE <<NumToString(prNumbers[i][1])>>

\* every commit of the stack has a PR number
StackHasAllPrs ==
    LET entries == buildStack(optBase, target).entries IN
    \A i \in 1..Len(entries) : LookupPrNumbers(entries)[i] # <<>>

(***************************************************************************)
(* C9: a submit that finds on every commit the trailers it computes for    *)
(* it (same branch name, same PR number or both without one) does not run  *)
(* the rewrite that precedes the creation of branches and PRs; when every  *)
(* commit has its PR as well, no commit is rewritten and no SHA changes.   *)
(***************************************************************************)
C9_NoRewriteWhenTrailersCurrent ==
    [][(lastCommand' = "submit" /\ StackTrailersCurrent) =>
           /\ gitLog' = <<>> \/ gitLog'[1].cmd # "rebase -i"
           /\ StackHasAllPrs => chain' = chain]_vars

(***************************************************************************)
(* C10: a submit or an edit (without --continue or --abort) that finds a   *)
(* rebase in progress issues no git rebase and leaves the paused rebase    *)
(* and the history as they are; the paused rebase ends only by             *)
(* edit --continue or edit --abort.                                        *)
(***************************************************************************)
C10_NoRewriteWhileRebaseInProgress ==
    (commands > 0 /\ before.rebase # <<>>) =>
        /\ lastCommand \in {"submit", "edit"} =>
               /\ \A i \in 1..Len(gitLog) : gitLog[i].cmd # "rebase -i"
               /\ rebase = before.rebase
               /\ chain = before.chain
        /\ rebase # before.rebase =>
               lastCommand \in {"edit --continue", "edit --abort"}

(***************************************************************************)
(* One run of rebaseWithTrailers, statement by statement, and what         *)
(* submitCommand does when it throws                                       *)
(***************************************************************************)
TempFiles == {"todoFile", "messagesDir", "editorScript", "counterFile"}

InitRewrite ==
    /\ IdleTrailers
    /\ IdleBuild
    /\ \E ms \in StackChains : Len(ms) >= 2 /\ chain = WithShas(ms)
    /\ currentBranch = FeatureBranch
    /\ \E service \in Services : prs = service.prs /\ prBase = service.prBase
    /\ optBase \in {<<>>} \cup (IF Len(chain) >= 3 THEN {<<2>>} ELSE {})
    /\ target = Main
    /\ rebase = <<>>
    /\ remoteBranches = <<>>
    /\ nextSha = Len(chain) + 1
    /\ gitLog = <<>>
    /\ lastCommand = "submit"
    /\ before = [chain |-> chain, rebase |-> rebase]
    /\ commands = 1
    /\ pc = "submit"
    /\ files = {}
    /\ messageFiles = <<>>
    /\ counter = 0
    /\ commitList = <<>>
    /\ pending = <<>>
    /\ thrown = <<>>
    /\ reported = <<>>
    /\ IdleLand
    /\ IdleBody

\* what a statement of the run leaves alone
RewriteFrame ==
    UNCHANGED <<trailerVars, buildVars, prs, optBase, target, remoteBranches,
                prBase, lastCommand, before, commands>>

\* submit.ts:66-144: submit builds the stack, looks the PR numbers up and,
\* when some commit needs its trailers updated, calls rebaseWithTrailers
\* with one item per entry; otherwise this run rewrites nothing
CallRewrite ==
    /\ pc = "submit"
    /\ \E stk \in {buildStack(optBase, target)} :
       \E prNumbers \in {LookupPrNumbers(stk.entries)} :
          IF Len(stk.entries) # 0 /\ needsRebase(stk.entries, prNumbers)
          THEN /\ commitList' = RewordList(stk.entries, prNumbers, stk.dependsOn)
               /\ pc' = "todoFile"
          ELSE /\ commitList' = <<>>
               /\ pc' = "exit"
    /\ UNCHANGED <<bodyVars, landVars, chain, currentBranch, rebase, nextSha, gitLog, files, messageFiles,
                   counter, pending, thrown, reported>>
    /\ RewriteFrame

\* a statement outside the try block throws: the error goes to the caller
ThrowToCaller(name) ==
    /\ thrown' = <<name>>
    /\ pc' = "caller"

\* submit.ts:328: Bun.write(todoFile, ...)
WriteTodoFile ==
    /\ pc = "todoFile"
    /\ \/ /\ files' = files \cup {"todoFile"}
          /\ pc' = "messagesDir"
          /\ UNCHANGED thrown
       \/ /\ ThrowToCaller("write")
          /\ UNCHANGED files
    /\ UNCHANGED <<bodyVars, landVars, chain, currentBranch, rebase, nextSha, gitLog, messageFiles,
                   counter, pending, reported>>
    /\ UNCHANGED commitList
    /\ RewriteFrame

\* submit.ts:329: mkdir -p messagesDir
MakeMessagesDir ==
    /\ pc = "messagesDir"
    /\ \/ /\ files' = files \cup {"messagesDir"}
          /\ pc' = "messages"
          /\ UNCHANGED thrown
       \/ /\ ThrowToCaller("mkdir")
          /\ UNCHANGED files
    /\ UNCHANGED <<bodyVars, landVars, chain, currentBranch, rebase, nextSha, gitLog, messageFiles,
                   counter, pending, reported>>
    /\ UNCHANGED commitList
    /\ RewriteFrame

\* submit.ts:332-350: the message of the next commit is read, given its
\* trailers and written to file i; after the last one the loop is left
WriteMessageFile ==
    /\ pc = "messages"
    /\ IF Len(messageFiles) = Len(commitList)
       THEN /\ pc' = "counterFile"
            /\ UNCHANGED <<messageFiles, thrown>>
       ELSE LET c == commitList[Len(messageFiles) + 1] IN
            \/ /\ messageFiles' =
                      Append(messageFiles,
                             setTrailers(getCommitMessage(chain, c.sha), TargetTrailers(c)))
               /\ UNCHANGED <<pc, thrown>>
            \/ /\ ThrowToCaller("read")
               /\ UNCHANGED messageFiles
            \/ /\ ThrowToCaller("write")
               /\ UNCHANGED messageFiles
    /\ UNCHANGED <<bodyVars, landVars, chain, currentBranch, rebase, nextSha, gitLog, files,
                   counter, pending, reported>>
    /\ UNCHANGED commitList
    /\ RewriteFrame

\* submit.ts:357: Bun.write(counterFile, "0")
WriteCounterFile ==
    /\ pc = "counterFile"
    /\ \/ /\ files' = files \cup {"counterFile"}
          /\ counter' = 0
          /\ pc' = "editorScript"
          /\ UNCHANGED thrown
       \/ /\ ThrowToCaller("write")
          /\ UNCHANGED <<files, counter>>
    /\ UNCHANGED <<bodyVars, landVars, chain, currentBranch, rebase, nextSha, gitLog, messageFiles,
                   pending, reported>>
    /\ UNCHANGED commitList
    /\ RewriteFrame

\* submit.ts:367-368: the editor script is written and made executable
WriteEditorScript ==
    /\ pc = "editorScript"
    /\ \/ /\ files' = files \cup {"editorScript"}
          /\ pc' = "rebase"
          /\ UNCHANGED thrown
       \/ /\ ThrowToCaller("write")
          /\ UNCHANGED files
    /\ UNCHANGED <<bodyVars, landVars, chain, currentBranch, rebase, nextSha, gitLog, messageFiles,
                   counter, pending, reported>>
    /\ UNCHANGED commitList
    /\ RewriteFrame

\* the editor script emits file number COUNT of messagesDir
HookMessage_FirstFile(msgs, count) == msgs[1]

\* the editor script: cat "$MESSAGES_DIR/$COUNT" > "$1"
HookMessage(msgs, count) == msgs[count + 1]

\* the editor script: echo $((COUNT + 1)) > "$COUNTER_FILE"
HookCounter(count) == count + 1

\* the commit of history ch with hash sha
CommitOf(ch, sha) == ch[CHOOSE j \in 1..Len(ch) : ch[j].sha = sha]

\* submit.ts:373: git rebase -i base starts; the sequence editor copies
\* the todo file, HEAD is detached at base. Or git refuses to start.
StartRebase ==
    /\ pc = "rebase"
    /\ \/ /\ pending' = [k \in 1..Len(commitList) |-> commitList[k].sha]
          /\ chain' = SubSeq(chain, 1, getMergeBase)
          /\ rebase' = <<[branch |-> currentBranch, orig |-> chain, todo |-> <<>>]>>
          /\ currentBranch' = DetachedHead
          /\ gitLog' = Append(gitLog, LogEntry("rebase -i", <<>>, chain[getMergeBase].sha, TRUE))
          /\ pc' = "engine"
          /\ UNCHANGED thrown
       \/ /\ gitLog' = Append(gitLog, LogEntry("rebase -i", <<>>, chain[getMergeBase].sha, FALSE))
          /\ thrown' = <<"rebase">>
          /\ pc' = "cleanup"
          /\ UNCHANGED <<pending, chain, rebase, currentBranch>>
    /\ UNCHANGED <<bodyVars, landVars, nextSha, files, messageFiles, counter, reported>>
    /\ UNCHANGED commitList
    /\ RewriteFrame

\* the rebase does its next todo line: the commit is picked and the
\* editor script gives it its message; or the rebase stops on it and the
\* command fails; after the last line the branch is moved and git exits
RebaseStep ==
    /\ pc = "engine"
    /\ IF pending = <<>>
       THEN /\ currentBranch' = rebase[1].branch
            /\ rebase' = <<>>
            /\ pc' = "cleanup"
            /\ UNCHANGED <<chain, nextSha, counter, pending, thrown>>
       ELSE \/ /\ chain' = Append(chain, [sha |-> nextSha,
                                          message |-> HookMessage(messageFiles, counter)])
               /\ counter' = HookCounter(counter)
               /\ nextSha' = nextSha + 1
               /\ pending' = Tail(pending)
               /\ UNCHANGED <<currentBranch, rebase, pc, thrown>>
            \/ /\ rebase' = <<[rebase[1] EXCEPT !.todo =
                       [k \in 1..Len(pending) |-> CommitOf(rebase[1].orig, pending[k])]]>>
               /\ thrown' = <<"rebase">>
               /\ pc' = "cleanup"
               /\ UNCHANGED <<chain, nextSha, counter, pending, currentBranch>>
    /\ UNCHANGED <<bodyVars, landVars, gitLog, files, messageFiles, reported>>
    /\ UNCHANGED commitList
    /\ RewriteFrame

\* submit.ts:380-387: the finally block removes the four temp files; the
\* error, if any, goes on to the caller
Cleanup ==
    /\ pc = "cleanup"
    /\ files' = {}
    /\ pc' = IF thrown = <<>> THEN "returned" ELSE "caller"
    /\ UNCHANGED <<bodyVars, landVars, chain, currentBranch, rebase, nextSha, gitLog, messageFiles,
                   counter, pending, thrown, reported>>
    /\ UNCHANGED commitList
    /\ RewriteFrame

\* the branch submit was started on
OriginalBranch == IF rebase # <<>> THEN rebase[1].branch ELSE currentBranch

\* submit.ts:294-297: the finally block of submitCommand checks the
\* original branch out, also over a paused rebase: HEAD goes back to the
\* branch, which the rebase has not moved yet; or git refuses (an index
\* with conflicts) and the CheckoutError replaces the error on its way
CallerFinally ==
    /\ pc = "caller"
    /\ \/ /\ gitLog' = Append(gitLog, LogEntry("checkout", OriginalBranch, 0, TRUE))
          /\ currentBranch' = OriginalBranch
          /\ chain' = IF rebase # <<>> THEN rebase[1].orig ELSE chain
          /\ UNCHANGED thrown
       \/ /\ rebase # <<>>
          /\ gitLog' = Append(gitLog, LogEntry("checkout", OriginalBranch, 0, FALSE))
          /\ thrown' = <<"checkout">>
          /\ UNCHANGED <<currentBranch, chain>>
    /\ pc' = "handleError"
    /\ UNCHANGED <<bodyVars, landVars, rebase, nextSha, files, messageFiles, counter, pending, reported>>
    /\ UNCHANGED commitList
    /\ RewriteFrame

\* submit.ts:298-300: handleError reports the error that arrived
HandleError ==
    /\ pc = "handleError"
    /\ reported' = thrown
    /\ pc' = "exit"
    /\ UNCHANGED <<bodyVars, landVars, chain, currentBranch, rebase, nextSha, gitLog, files,
                   messageFiles, counter, pending, thrown>>
    /\ UNCHANGED commitList
    /\ RewriteFrame

NextRewrite ==
    \/ CallRewrite
    \/ WriteTodoFile
    \/ MakeMessagesDir
    \/ WriteMessageFile
    \/ WriteCounterFile
    \/ WriteEditorScript
    \/ StartRebase
    \/ RebaseStep
    \/ Cleanup
    \/ CallerFinally
    \/ HandleError

SpecRewrite == InitRewrite /\ [][NextRewrite]_vars

\* rebaseWithTrailers is over: it has returned or thrown
RewriteOver == pc \in {"returned", "caller", "handleError", "exit"}

(***************************************************************************)
(* C11: when the scripted rewrite stops part-way, with the rebase still in *)
(* progress, nothing more is run on top of the paused rebase (no checkout) *)
(* and the error reported is the failure of the rewrite.                   *)
(***************************************************************************)
C11_PausedRewriteLeftAlone ==
    (RewriteOver /\ rebase # <<>>) =>
        /\ \A k \in 1..Len(gitLog) : gitLog[k].cmd # "checkout"
        /\ pc = "exit" => reported = <<"rebase">>

(***************************************************************************)
(* C12: on every exit path of rebaseWithTrailers, a failure before the     *)
(* rebase starts included, none of the todo file, the messages directory,  *)
(* the editor script and the counter file exists any more.                 *)
(***************************************************************************)
C12_TempFilesRemovedOnEveryExit ==
    RewriteOver => files \cap TempFiles = {}

\* the message rebaseWithTrailers computes for item k of its list
NewMessage(k) ==
    setTrailers(getCommitMessage(before.chain, commitList[k].sha),
                TargetTrailers(commitList[k]))

(***************************************************************************)
(* C13: while the rebase runs, the counter is the number of commits        *)
(* reworded so far and the k-th of them carries message k, which is        *)
(* setTrailers of the k-th original message and the k-th target trailers;  *)
(* after a completed rewrite of N commits the counter is N.                *)
(***************************************************************************)
C13_CounterProtocol ==
    /\ pc \in {"engine", "cleanup", "returned"} =>
           /\ counter <= Len(commitList)
           /\ Len(chain) >= getMergeBase + counter
           /\ \A k \in 1..counter : chain[getMergeBase + k].message = NewMessage(k)
           /\ rebase # <<>> => Len(chain) = getMergeBase + counter
    /\ pc = "returned" =>
           /\ counter = Len(commitList)
           /\ Len(chain) = getMergeBase + counter

C13_Witness ==
    /\ pc = "returned"
    /\ counter = 2
    /\ chain[getMergeBase + 1].message # chain[getMergeBase + 2].message
    /\ chain[getMergeBase + 2].message # getCommitMessage(before.chain, commitList[2].sha)

\* the hashes of the range git rebase -i base rebases: base..HEAD, oldest first
RebasedRange ==
    [k \in 1..(Len(before.chain) - getMergeBase) |-> before.chain[getMergeBase + k].sha]

(***************************************************************************)
(* C14: the todo holds exactly one reword line per commit of the range     *)
(* being rebased, oldest first, and after a successful rewrite the history *)
(* has as many commits as before: none is dropped.                         *)
(***************************************************************************)
C14_TodoCoversRebasedRange ==
    pc = "returned" =>
        /\ [k \in 1..Len(commitList) |-> commitList[k].sha] = RebasedRange
        /\ Len(chain) = Len(before.chain)

\* the hashes of the commits of history ch
Shas(ch) == {ch[i].sha : i \in 1..Len(ch)}

\* the positions of the command log at which a rewrite has succeeded
Rewrites == {j \in 1..Len(gitLog) : gitLog[j].cmd = "rebase -i" /\ gitLog[j].ok}

\* the positions of the command log at which a branch is created or pushed
BranchUses == {k \in 1..Len(gitLog) : gitLog[k].cmd \in {"branch", "push"}}

(***************************************************************************)
(* C15: every branch submit creates or pushes after a successful rewrite   *)
(* is put on a commit made by the rewrite, never on a commit from before   *)
(* it: after the last rewrite of the run, on a commit of the final history.*)
(***************************************************************************)
C15_BranchesUseRewrittenShas ==
    lastCommand = "submit" =>
        \A k \in BranchUses :
            /\ (\E j \in Rewrites : j < k) => gitLog[k].sha \notin Shas(before.chain)
            /\ (Rewrites # {} /\ \A j \in Rewrites : j < k) => gitLog[k].sha \in Shas(chain)

C15_Witness ==
    /\ lastCommand = "submit"
    /\ Cardinality(Rewrites) = 2
    /\ \E k \in BranchUses : \E i, j \in Rewrites : i < k /\ k < j
    /\ \E k \in BranchUses : \A j \in Rewrites : j < k

(***************************************************************************)
(* Submit on a branch where new commits have been put beneath commits that *)
(* were submitted before                                                   *)
(***************************************************************************)
InsertedChains ==
    { <<BasePlain, <<"A">>, b, c>> : b \in StackMessages, c \in StackMessages \ {<<"A">>} }

InitInsert ==
    /\ IdleTrailers
    /\ IdleBuild
    /\ \E ms \in InsertedChains : chain = WithShas(ms)
    /\ currentBranch = FeatureBranch
    /\ \E service \in Services : prs = service.prs /\ prBase = service.prBase
    /\ optBase = <<>>
    /\ target = Main
    /\ rebase = <<>>
    /\ remoteBranches = <<>>
    /\ nextSha = Len(chain) + 1
    /\ gitLog = <<>>
    /\ lastCommand = ""
    /\ before = <<>>
    /\ commands = 0
    /\ IdleRewrite
    /\ IdleLand
    /\ IdleBody

SpecInsert == InitInsert /\ [][NextSubmit]_vars

\* the last command was a submit of a stack with entries in which no call failed
SubmitSucceeded ==
    /\ lastCommand = "submit"
    /\ gitLog # <<>>
    /\ \A k \in 1..Len(gitLog) : gitLog[k].ok

(***************************************************************************)
(* C16: after a successful submit of N entries, for every i the remote     *)
(* branch branchName_i points at the final commit of entry i, and entry i  *)
(* has a PR whose head is branchName_i and whose base is targetBranch_i.   *)
(***************************************************************************)
C16_RemoteAndPRsMatchStack ==
    SubmitSucceeded =>
        \A i \in 1..Len(stack.entries) :
            LET entry == stack.entries[i] IN
            /\ getMergeBase + i <= Len(chain)
            /\ getRemoteBranchSha(remoteBranches, entry.branchName)
                   = <<chain[getMergeBase + i].sha>>
            /\ entry.prNumber # <<>>
            /\ findPRByBranch(entry.branchName) = entry.prNumber
            /\ MapGet(prBase, entry.prNumber[1]) = <<entry.targetBranch>>

(***************************************************************************)
(* Land: validation, merge, and the rebase and push of the remaining       *)
(* entries, against a remote that others push to                           *)
(***************************************************************************)
MaxChecks == 2
MaxLands == 1
MaxRemoteMoves == 1
MaxPushes == 1

BranchF2 == <<"s","t","a","c","k","/","f","/","2">>

\* getPRStatus: the fields of gh pr view as the code reads them; a field
\* that is absent or empty is "", which || replaces
getPRStatus(data) ==
    [mergeable |-> data.mergeable = "MERGEABLE",
     reviewDecision |-> data.reviewDecision,
     statusCheckRollup |->
         [k \in 1..Len(data.statusCheckRollup) |->
             LET check == data.statusCheckRollup[k] IN
             [name |-> IF check.name # "" THEN check.name
                       ELSE IF check.context # "" THEN check.context ELSE "Unknown",
              status |-> IF check.status # "" THEN check.status
                         ELSE IF check.state # "" THEN check.state ELSE "UNKNOWN",
              conclusion |-> check.conclusion]]]

\* check.conclusion === "FAILURE" || check.conclusion === "ERROR"
IsFailed(check) == check.conclusion \in {"FAILURE", "ERROR"}

\* check.status === "IN_PROGRESS" || "PENDING" || "QUEUED"
IsRunning(check) == check.status \in {"IN_PROGRESS", "PENDING", "QUEUED"}

areCIChecksPassing(data) ==
    LET checks == getPRStatus(data).statusCheckRollup
        isFailing == \E k \in 1..Len(checks) : IsFailed(checks[k])
        isPending == \E k \in 1..Len(checks) : ~IsFailed(checks[k]) /\ IsRunning(checks[k])
    IN  [passing |-> ~isFailing /\ ~isPending, pending |-> isPending,
         failing |-> isFailing, checks |-> checks]

\* the names of the checks landCommand puts in the error and in the warning
FailedChecks(ciStatus) ==
    LET failed == SelectSeq(ciStatus.checks, IsFailed) IN
    [k \in 1..Len(failed) |-> failed[k].name]

LandError(name, checks) == [name |-> name, checks |-> checks]

\* force overrides the review decision as well
LandValidation_ForceSkipsReview(data, forced) ==
    LET status == getPRStatus(data)
        ciStatus == areCIChecksPassing(data)
    IN  IF ~status.mergeable THEN <<LandError("PRNotMergeableError", <<>>)>>
        ELSE IF forced THEN <<>>
        ELSE IF status.reviewDecision = "CHANGES_REQUESTED"
        THEN <<LandError("ChangesRequestedError", <<>>)>>
        ELSE IF status.reviewDecision = "REVIEW_REQUIRED"
        THEN <<LandError("ReviewRequiredError", <<>>)>>
        ELSE IF ciStatus.failing THEN <<LandError("CIFailedError", FailedChecks(ciStatus))>>
        ELSE IF ciStatus.pending THEN <<LandError("CIPendingError", <<>>)>>
        ELSE <<>>

\* the failed checks are named by position, not by conclusion
LandValidation_NamesAllChecks(data, forced) ==
    LET status == getPRStatus(data)
        ciStatus == areCIChecksPassing(data)
    IN  IF ~status.mergeable THEN <<LandError("PRNotMergeableError", <<>>)>>
        ELSE IF status.reviewDecision = "CHANGES_REQUESTED"
        THEN <<LandError("ChangesRequestedError", <<>>)>>
        ELSE IF status.reviewDecision = "REVIEW_REQUIRED"
        THEN <<LandError("ReviewRequiredError", <<>>)>>
        ELSE IF ciStatus.failing /\ ~forced
        THEN <<LandError("CIFailedError",
                         [k \in 1..Len(ciStatus.checks) |-> ciStatus.checks[k].name])>>
        ELSE IF ciStatus.pending /\ ~forced THEN <<LandError("CIPendingError", <<>>)>>
        ELSE <<>>

\* the pre-merge validation: the error it throws, <<>> when it passes
LandValidation(data, forced) ==
    LET status == getPRStatus(data)
        ciStatus == areCIChecksPassing(data)
    IN  IF ~status.mergeable THEN <<LandError("PRNotMergeableError", <<>>)>>
        ELSE IF status.reviewDecision = "CHANGES_REQUESTED"
        THEN <<LandError("ChangesRequestedError", <<>>)>>
        ELSE IF status.reviewDecision = "REVIEW_REQUIRED"
        THEN <<LandError("ReviewRequiredError", <<>>)>>
        ELSE IF ciStatus.failing /\ ~forced
        THEN <<LandError("CIFailedError", FailedChecks(ciStatus))>>
        ELSE IF ciStatus.pending /\ ~forced THEN <<LandError("CIPendingError", <<>>)>>
        ELSE <<>>

\* the warnings logged when force lets failing or pending CI through
LandWarnings(data, forced) ==
    LET ciStatus == areCIChecksPassing(data) IN
    (IF ciStatus.failing /\ forced
     THEN <<LogEntry("warn", FailedChecks(ciStatus), 0, TRUE)>> ELSE <<>>)
    \o (IF ciStatus.pending /\ forced
        THEN <<LogEntry("warn", <<>>, 0, TRUE)>> ELSE <<>>)

\* stack.dependsOn?.topBranch ?? target
LandTarget(stk) == IF stk.dependsOn # <<>> THEN stk.dependsOn[1].topBranch ELSE target

\* the title of the squash commit: first line of the message without
\* stacker trailers, with the PR number
SquashTitle(commitMessage, prNumber) ==
    Split(stripStackerTrailers(commitMessage))[1]
        \o <<" ","(","#">> \o NumToString(prNumber) \o <<")">>

\* lines.slice(1).join("\n").trim() || " "
SquashBody(commitMessage) ==
    LET body == Trim(Join(Tail(Split(stripStackerTrailers(commitMessage))))) IN
    IF body = <<>> THEN <<" ">> ELSE body

\* the message of the commit the squash merge puts on the target branch
SquashMessage(commitMessage, prNumber) ==
    IF SquashBody(commitMessage) = <<" ">>
    THEN SquashTitle(commitMessage, prNumber)
    ELSE SquashTitle(commitMessage, prNumber) \o <<NL, NL>> \o SquashBody(commitMessage)

\* Map without key k
MapDelete(m, k) == SelectSeq(m, LAMBDA pair : pair[1] # k)

\* the base update of the next PR, when there is one with a PR number
NextBaseUpdate(stk) ==
    IF Len(stk.entries) > 1 /\ stk.entries[2].prNumber # <<>>
                            /\ Truthy(stk.entries[2].prNumber[1])
    THEN <<stk.entries[2].prNumber[1]>>
    ELSE <<>>

\* the commits of the branch: without trailers, or submitted as PR 1 and 2
LandMessages ==
    [plain |-> <<"A">>,
     first |-> <<"D","\n","\n","S","t","a","c","k","e","r","-","B","r","a","n","c","h",":"," ","s","t","a","c","k","/","f","/","1","\n","S","t","a","c","k","e","r","-","P","R",":"," ","1">>,
     second |-> <<"E","\n","\n","S","t","a","c","k","e","r","-","B","r","a","n","c","h",":"," ","s","t","a","c","k","/","f","/","2","\n","S","t","a","c","k","e","r","-","P","R",":"," ","2">>]

\* a repository and its review service: one submitted commit; two; two,
\* the service not knowing PR 2; a new commit beneath a submitted one,
\* its branch without open PR; two on top of another stack
LandRepos ==
    { [messages |-> <<BasePlain, LandMessages.first>>,
       prs |-> <<<<BranchF1, 1>>>>, prBase |-> <<<<1, Main>>>>],
      [messages |-> <<BasePlain, LandMessages.first, LandMessages.second>>,
       prs |-> <<<<BranchF1, 1>>, <<BranchF2, 2>>>>,
       prBase |-> <<<<1, Main>>, <<2, BranchF1>>>>],
      [messages |-> <<BasePlain, LandMessages.first, LandMessages.second>>,
       prs |-> <<<<BranchF1, 1>>>>, prBase |-> <<<<1, Main>>>>],
      [messages |-> <<BasePlain, LandMessages.plain, LandMessages.second>>,
       prs |-> <<<<BranchF2, 2>>>>, prBase |-> <<<<2, BranchF1>>>>],
      [messages |-> <<BaseOnOtherStack, LandMessages.first, LandMessages.second>>,
       prs |-> <<<<BranchF1, 1>>, <<BranchF2, 2>>>>,
       prBase |-> <<<<1, BranchO2>>, <<2, BranchF1>>>>] }

\* statusCheckRollup entries: check runs, and a commit status (context, state)
RawChecks ==
    { [name |-> "build", context |-> "", status |-> "COMPLETED", state |-> "", conclusion |-> "SUCCESS"],
      [name |-> "lint", context |-> "", status |-> "COMPLETED", state |-> "", conclusion |-> "FAILURE"],
      [name |-> "deploy", context |-> "", status |-> "COMPLETED", state |-> "", conclusion |-> "ERROR"],
      [name |-> "", context |-> "ci", status |-> "", state |-> "PENDING", conclusion |-> ""] }

PrDataChoices ==
    { [mergeable |-> m, reviewDecision |-> r, statusCheckRollup |-> c] :
        m \in {"MERGEABLE", "CONFLICTING"},
        r \in {"", "CHANGES_REQUESTED", "REVIEW_REQUIRED"},
        c \in SeqsUpTo(RawChecks, MaxChecks) }

\* the remote branches of the commits that carry a branch trailer
RemoteOf(ch) ==
    LET withBranch == SelectSeq(ch, LAMBDA c :
            MapHas(getStackerTrailers(c.message), TRAILER_KEY_BRANCH)) IN
    [k \in 1..Len(withBranch) |->
        <<MapGet(getStackerTrailers(withBranch[k].message), TRAILER_KEY_BRANCH)[1],
          withBranch[k].sha>>]

InitLand ==
    /\ IdleTrailers
    /\ IdleBuild
    /\ IdleRewrite
    /\ \E repo \in LandRepos :
          /\ chain = WithShas(repo.messages)
          /\ prs = repo.prs
          /\ prBase = repo.prBase
    /\ currentBranch = FeatureBranch
    /\ optBase = <<>>
    /\ target = Main
    /\ rebase = <<>>
    /\ remoteBranches = RemoteOf(SubSeq(chain, 2, Len(chain)))
    /\ nextSha = Len(chain) + 1
    /\ gitLog = <<>>
    /\ lastCommand = ""
    /\ before = <<>>
    /\ commands = 0
    /\ prData \in PrDataChoices
    /\ force \in BOOLEAN
    /\ dryRun \in IF force THEN {FALSE} ELSE BOOLEAN
    /\ tracking = remoteBranches
    /\ pushes = <<>>
    /\ landPos = 0
    /\ merged = {}
    /\ moves = 0
    /\ all = FALSE
    /\ IdleBody

\* what no step of land changes
LandFrame ==
    UNCHANGED <<trailerVars, prevStack, builds, unchanged, dirty, optBase, target,
                prData, force, dryRun, moves, all, files, messageFiles, counter,
                commitList, pending, thrown>>

\* land ends before its first mutating call
LandStops(error) ==
    [reported |-> error, log |-> <<>>, prs |-> prs, prBase |-> prBase,
     remote |-> remoteBranches, merged |-> merged, pc |-> "exit"]

\* a land that merges the bottom PR first and moves the base of the next
\* PR afterwards, whether or not the merge went through
LandMerge_MergeFirst(stk, mergeOk) ==
    LET bottomEntry == stk.entries[1]
        number == bottomEntry.prNumber[1]
        nextPr == NextBaseUpdate(stk)
        title == SquashTitle(getCommitMessage(chain, bottomEntry.commit.sha), number)
    IN  [reported |-> <<>>,
         log |-> LandWarnings(prData, force)
                 \o <<LogEntry("pr merge", title, number, TRUE)>>
                 \o (IF nextPr # <<>>
                     THEN <<LogEntry("pr edit", LandTarget(stk), nextPr[1], TRUE)>>
                     ELSE <<>>)
                 \o <<LogEntry("fetch", LandTarget(stk), 0, TRUE)>>,
         prs |-> MapDelete(prs, bottomEntry.branchName),
         prBase |-> IF nextPr # <<>> THEN MapSet(prBase, nextPr[1], LandTarget(stk))
                    ELSE prBase,
         remote |-> MapDelete(remoteBranches, bottomEntry.branchName),
         merged |-> merged \cup {number},
         pc |-> IF Len(stk.entries) > 1 THEN "landFetch" ELSE "exit"]

\* part_002:159-202: the base of the next PR is moved to the land target,
\* the bottom PR is squash-merged and its branch deleted, the target fetched
LandMerge(stk, mergeOk) ==
    LET bottomEntry == stk.entries[1]
        number == bottomEntry.prNumber[1]
        warnings == LandWarnings(prData, force)
        nextPr == NextBaseUpdate(stk)
        title == SquashTitle(getCommitMessage(chain, bottomEntry.commit.sha), number)
    IN  IF nextPr # <<>> /\ ~MapHas(prBase, nextPr[1])
        THEN [LandStops(<<LandError("PRUpdateError", <<>>)>>) EXCEPT
                 !.log = warnings \o <<LogEntry("pr edit", LandTarget(stk), nextPr[1], FALSE)>>]
        ELSE LET edits == IF nextPr # <<>>
                          THEN <<LogEntry("pr edit", LandTarget(stk), nextPr[1], TRUE)>>
                          ELSE <<>>
                 newBase == IF nextPr # <<>>
                            THEN MapSet(prBase, nextPr[1], LandTarget(stk))
                            ELSE prBase
             IN  IF mergeOk
                 THEN [reported |-> <<>>,
                       log |-> warnings \o edits
                               \o <<LogEntry("pr merge", title, number, TRUE),
                                    LogEntry("fetch", LandTarget(stk), 0, TRUE)>>,
                       prs |-> MapDelete(prs, bottomEntry.branchName),
                       prBase |-> newBase,
                       remote |-> MapDelete(remoteBranches, bottomEntry.branchName),
                       merged |-> merged \cup {number},
                       pc |-> IF Len(stk.entries) > 1 THEN "landFetch" ELSE "exit"]
                 ELSE [LandStops(<<LandError("PRMergeError", <<>>)>>) EXCEPT
                          !.log = warnings \o edits
                                  \o <<LogEntry("pr merge", title, number, FALSE)>>,
                          !.prBase = newBase]

\* part_002:67-202
landCommand(stk, mergeOk) ==
    IF Len(stk.entries) = 0 THEN LandStops(<<>>)
    ELSE IF stk.entries[1].prNumber = <<>> \/ ~Truthy(stk.entries[1].prNumber[1])
    THEN LandStops(<<LandError("NoPRForCommitError", <<>>)>>)
    ELSE IF dryRun THEN LandStops(<<>>)
    ELSE IF LandValidation(prData, force) # <<>>
    THEN LandStops(LandValidation(prData, force))
    ELSE LandMerge(stk, mergeOk)

\* one call of landCommand, up to the loop over the remaining entries; log
\* holds the calls the run has issued before
LandRound(log) ==
    /\ \E stk \in {buildStack(optBase, target)} :
       \E mergeOk \in BOOLEAN :
       \E run \in {landCommand(stk, mergeOk)} :
          /\ stack' = stk
          /\ reported' = run.reported
          /\ gitLog' = log \o run.log
          /\ prs' = run.prs
          /\ prBase' = run.prBase
          /\ remoteBranches' = run.remote
          /\ merged' = run.merged
          /\ pc' = run.pc
          /\ landPos' = 2
    /\ UNCHANGED <<bodyVars, chain, currentBranch, rebase, nextSha, tracking, pushes>>
    /\ LandFrame

\* stacker land, up to the loop over the remaining entries
Land ==
    /\ pc \in {"", "exit"}
    /\ commands < MaxLands
    /\ commands' = commands + 1
    /\ lastCommand' = "land"
    /\ before' = [chain |-> chain, rebase |-> rebase, branch |-> currentBranch]
    /\ LandRound(<<>>)

\* a land that never goes on to the next round
LandsNext_Never(stk) == FALSE

\* part_002:272: if (all && stack.entries.length > 1)
LandsNext(stk) == all /\ Len(stk.entries) > 1

\* part_002:272-277: with --all the command calls itself; the stack is
\* built again, from the branch the round before has rebased
LandAgain ==
    /\ pc = "landAll"
    /\ UNCHANGED <<commands, lastCommand, before>>
    /\ LandRound(gitLog)

\* part_002:214-217: the remote branch of the entry is fetched and checked
\* out as the local branch
LandFetchCheckout ==
    /\ pc = "landFetch"
    /\ LET branchName == stack.entries[landPos].branchName IN
       IF MapHas(remoteBranches, branchName)
       THEN /\ tracking' = MapSet(tracking, branchName, MapGet(remoteBranches, branchName)[1])
            /\ currentBranch' = branchName
            /\ gitLog' = gitLog \o <<LogEntry("fetch", branchName, 0, TRUE),
                                     LogEntry("checkout", branchName, 0, TRUE)>>
            /\ pc' = "landRebase"
            /\ UNCHANGED reported
       ELSE /\ gitLog' = Append(gitLog, LogEntry("fetch", branchName, 0, FALSE))
            /\ reported' = <<LandError("FetchError", <<>>)>>
            /\ pc' = "exit"
            /\ UNCHANGED <<tracking, currentBranch>>
    /\ UNCHANGED <<bodyVars, chain, prs, stack, rebase, remoteBranches, prBase, nextSha,
                   lastCommand, before, commands, pushes, landPos, merged>>
    /\ LandFrame

\* one git push: what is pushed, the local view of the remote branch and
\* what the remote has at that moment
PushRecord(branchName, sha, ok) ==
    [branch |-> branchName, sha |-> sha, view |-> MapGet(tracking, branchName),
     found |-> MapGet(remoteBranches, branchName), ok |-> ok]

\* part_002:220-234: the branch is rebased onto the fetched target and
\* pushed with git push -f; or the rebase stops on a conflict
LandRebasePush ==
    /\ pc = "landRebase"
    /\ LET branchName == stack.entries[landPos].branchName IN
       \/ /\ gitLog' = gitLog \o <<LogEntry("rebase", branchName, nextSha, TRUE),
                                   LogEntry("push", branchName, nextSha, TRUE)>>
          /\ pushes' = Append(pushes, PushRecord(branchName, nextSha, TRUE))
          /\ remoteBranches' = MapSet(remoteBranches, branchName, nextSha)
          /\ tracking' = MapSet(tracking, branchName, nextSha)
          /\ nextSha' = nextSha + 1
          /\ landPos' = landPos + 1
          /\ pc' = IF landPos = Len(stack.entries) THEN "landFinish" ELSE "landFetch"
          /\ UNCHANGED <<rebase, reported>>
       \/ /\ gitLog' = Append(gitLog, LogEntry("rebase", branchName, 0, FALSE))
          /\ rebase' = <<[branch |-> branchName, orig |-> chain, todo |-> <<>>]>>
          /\ reported' = <<LandError("RebaseConflictError", <<>>)>>
          /\ pc' = "exit"
          /\ UNCHANGED <<pushes, remoteBranches, tracking, nextSha, landPos>>
    /\ UNCHANGED <<bodyVars, chain, currentBranch, prs, stack, prBase, lastCommand, before,
                   commands, merged>>
    /\ LandFrame

\* the branch after git rebase remote/landTarget: the squash commit of the
\* landed entry, then the remaining commits as new objects
RebasedOntoTarget(ch, stk, firstSha) ==
    LET landed == stk.entries[1]
        squash == [sha |-> firstSha,
                   message |-> SquashMessage(getCommitMessage(ch, landed.commit.sha),
                                             landed.prNumber[1])]
        rest == SubSeq(ch, Len(ch) - Len(stk.entries) + 2, Len(ch))
    IN  <<squash>> \o [k \in 1..Len(rest) |->
                          [sha |-> firstSha + k, message |-> rest[k].message]]

\* part_002:238-277: back on the original branch, which is rebased too;
\* then the next round when --all is given
LandFinish ==
    /\ pc = "landFinish"
    /\ currentBranch' = before.branch
    /\ \/ /\ chain' = RebasedOntoTarget(chain, stack, nextSha)
          /\ nextSha' = nextSha + Len(stack.entries)
          /\ gitLog' = gitLog \o <<LogEntry("checkout", before.branch, 0, TRUE),
                                   LogEntry("rebase", before.branch, nextSha, TRUE)>>
          /\ pc' = IF LandsNext(stack) THEN "landAll" ELSE "exit"
          /\ UNCHANGED <<rebase, reported>>
       \/ /\ gitLog' = gitLog \o <<LogEntry("checkout", before.branch, 0, TRUE),
                                   LogEntry("rebase", before.branch, 0, FALSE)>>
          /\ rebase' = <<[branch |-> before.branch, orig |-> chain, todo |-> <<>>]>>
          /\ reported' = <<LandError("RebaseConflictError", <<>>)>>
          /\ pc' = "exit"
          /\ UNCHANGED <<chain, nextSha>>
    /\ UNCHANGED <<bodyVars, prs, stack, remoteBranches, prBase, lastCommand, before, commands,
                   tracking, pushes, landPos, merged>>
    /\ LandFrame

\* somebody else pushes a new commit to a stack branch of the remote
RemoteMoves ==
    /\ moves < MaxRemoteMoves
    /\ moves' = moves + 1
    /\ \E i \in 1..Len(remoteBranches) :
          remoteBranches' = MapSet(remoteBranches, remoteBranches[i][1], nextSha)
    /\ nextSha' = nextSha + 1
    /\ UNCHANGED <<bodyVars, trailerVars, buildVars, submitVarsButRemote, rewriteVars,
                   chain, currentBranch, prs, optBase, target,
                   prData, force, dryRun, tracking, pushes, landPos, merged, all>>

\* git push --force-with-lease remote branch: accepted when the remote
\* branch is where the remote-tracking ref has it
pushBranch(branchName) == MapGet(tracking, branchName) = MapGet(remoteBranches, branchName)

\* submit.ts:166-181 for one entry of the stack: when the remote branch is
\* not at the entry's commit the branch is created there and pushed
SubmitPush ==
    /\ pc \in {"", "exit"}
    /\ rebase = <<>>
    /\ Len(pushes) < MaxPushes
    /\ lastCommand' = "submit"
    /\ \E stk \in {buildStack(optBase, target)} :
       \E i \in 1..Len(stk.entries) :
          LET entry == stk.entries[i] IN
          /\ getRemoteBranchSha(remoteBranches, entry.branchName) # <<entry.commit.sha>>
          /\ stack' = stk
          /\ IF pushBranch(entry.branchName)
             THEN /\ remoteBranches' = MapSet(remoteBranches, entry.branchName, entry.commit.sha)
                  /\ tracking' = MapSet(tracking, entry.branchName, entry.commit.sha)
                  /\ pushes' = Append(pushes, PushRecord(entry.branchName, entry.commit.sha, TRUE))
                  /\ gitLog' = <<LogEntry("branch", entry.branchName, entry.commit.sha, TRUE),
                                 LogEntry("push", entry.branchName, entry.commit.sha, TRUE)>>
                  /\ reported' = <<>>
             ELSE /\ pushes' = Append(pushes, PushRecord(entry.branchName, entry.commit.sha, FALSE))
                  /\ gitLog' = <<LogEntry("branch", entry.branchName, entry.commit.sha, TRUE),
                                 LogEntry("push", entry.branchName, entry.commit.sha, FALSE)>>
                  /\ reported' = <<LandError("PushError", <<>>)>>
                  /\ UNCHANGED <<remoteBranches, tracking>>
    /\ UNCHANGED <<bodyVars, chain, currentBranch, prs, rebase, prBase, nextSha, before, commands,
                   pc, landPos, merged>>
    /\ LandFrame

NextLand ==
    \/ Land
    \/ LandFetchCheckout
    \/ LandRebasePush
    \/ LandFinish

\* land on its own
SpecLand == InitLand /\ [][NextLand]_vars

NextRace ==
    \/ NextLand
    \/ RemoteMoves
    \/ SubmitPush

\* land and the pushes of submit, while others push to the remote
SpecRace == InitLand /\ [][NextRace]_vars

(***************************************************************************)
(* C17: every push of a stack branch, by submit and by land, is            *)
(* conditional: a push that succeeds found the remote branch where the     *)
(* local view of it had it, so a remote that has moved is never            *)
(* overwritten.                                                            *)
(***************************************************************************)
C17_EveryPushConditional ==
    \A k \in 1..Len(pushes) : pushes[k].ok => pushes[k].found = pushes[k].view

\* the calls of land that change the repository, the remote or a PR
MutatingCalls == {"pr edit", "pr merge", "checkout", "rebase", "push"}

\* the commands of the log that are cmd
Issued(cmd) == {k \in 1..Len(gitLog) : gitLog[k].cmd = cmd}

\* the bottom entry of the stack the last land built has a PR
BottomHasPR ==
    /\ Len(stack.entries) > 0
    /\ stack.entries[1].prNumber # <<>>
    /\ Truthy(stack.entries[1].prNumber[1])

\* the review decision the service reports does not block
ReviewAllows == prData.reviewDecision \notin {"CHANGES_REQUESTED", "REVIEW_REQUIRED"}

(***************************************************************************)
(* C18: land issues a mutating call (PR base update, merge, checkout,      *)
(* rebase, push) only when the bottom entry has a PR, the PR is mergeable, *)
(* its review decision is neither CHANGES_REQUESTED nor REVIEW_REQUIRED,   *)
(* and its CI has no failed and no running check or --force is given.      *)
(***************************************************************************)
C18_LandValidatesBeforeMutating ==
    (lastCommand = "land" /\ \E k \in 1..Len(gitLog) : gitLog[k].cmd \in MutatingCalls) =>
        /\ BottomHasPR
        /\ prData.mergeable = "MERGEABLE"
        /\ ReviewAllows
        /\ \/ force
           \/ \A k \in 1..Len(prData.statusCheckRollup) :
                 LET check == getPRStatus(prData).statusCheckRollup[k] IN
                 ~IsFailed(check) /\ ~IsRunning(check)

C18_Witness ==
    /\ lastCommand = "land"
    /\ pc = "exit"
    /\ force
    /\ \E k \in 1..Len(prData.statusCheckRollup) :
          prData.statusCheckRollup[k].conclusion = "FAILURE"
    /\ Issued("pr edit") # {}
    /\ Issued("pr merge") # {}
    /\ Issued("push") # {}

\* the names of the checks of the PR whose conclusion is FAILURE or ERROR
FailedNames ==
    LET failed == SelectSeq(prData.statusCheckRollup,
                            LAMBDA c : c.conclusion \in {"FAILURE", "ERROR"}) IN
    [k \in 1..Len(failed) |-> failed[k].name]

\* land has run, not as a dry run, on a bottom PR with a FAILURE check
LandedWithFailure ==
    /\ lastCommand = "land"
    /\ BottomHasPR
    /\ ~dryRun
    /\ \E k \in 1..Len(prData.statusCheckRollup) :
          prData.statusCheckRollup[k].conclusion = "FAILURE"

\* without --force: the CI-failure error with the failed checks, no merge;
\* with --force: a warning with the failed checks, then the merge
FailureOutcome ==
    IF ~force
    THEN /\ reported = <<LandError("CIFailedError", FailedNames)>>
         /\ Issued("pr merge") = {}
    ELSE \E k \in Issued("pr merge") :
            \E j \in Issued("warn") : j < k /\ gitLog[j].ref = FailedNames

(***************************************************************************)
(* C19 as stated: landing a bottom PR that has a check with conclusion     *)
(* FAILURE fails, without --force, with the CI-failure error naming the    *)
(* failed checks and merges nothing; with --force it logs a warning and    *)
(* goes on to the merge.                                                   *)
(***************************************************************************)
C19_FailedCheckDecidesLand ==
    LandedWithFailure => FailureOutcome

(***************************************************************************)
(* C19 amended: the same, for a bottom PR that is mergeable and whose      *)
(* review decision does not block, and, with --force, when the base update *)
(* of the next PR succeeds.                                                *)
(***************************************************************************)
C19_FailedCheckDecidesValidLand ==
    ( /\ LandedWithFailure
      /\ prData.mergeable = "MERGEABLE"
      /\ ReviewAllows
      /\ force => (NextBaseUpdate(stack) = <<>> \/ MapHas(prBase, NextBaseUpdate(stack)[1])) )
    => FailureOutcome

C19_Witness ==
    /\ LandedWithFailure
    /\ ~force
    /\ Len(prData.statusCheckRollup) = 2
    /\ reported = <<LandError("CIFailedError", <<"lint">>)>>

(***************************************************************************)
(* PR body composer                                                        *)
(***************************************************************************)
StartMarker == <<"<","!","-","-"," ","s","t","a","c","k","e","r",":","s","t","a","r","t"," ","-","-",">">>
EndMarker == <<"<","!","-","-"," ","s","t","a","c","k","e","r",":","e","n","d"," ","-","-",">">>

\* String.prototype.indexOf: the index, from 0, of the first occurrence
\* of sub in s, -1 when there is none
IndexOf(s, sub) ==
    LET hits == {i \in 0..(Len(s) - Len(sub)) : SubSeq(s, i + 1, i + Len(sub)) = sub} IN
    IF hits = {} THEN -1 ELSE CHOOSE i \in hits : \A j \in hits : i <= j

\* String.prototype.slice(from, to), indices from 0
Slice(s, from, to) == SubSeq(s, from + 1, to)

removeStackerSection(body) ==
    LET startIdx == IndexOf(body, StartMarker)
        endIdx == IndexOf(body, EndMarker)
    IN  IF startIdx = -1 \/ endIdx = -1 THEN body
        ELSE Trim(Slice(body, 0, startIdx)
                  \o Slice(body, endIdx + Len(EndMarker), Len(body)))

\* `#${prNumber}`
PrRef(prNumber) == <<"#">> \o NumToString(prNumber[1])

HasPr(prNumber) == prNumber # <<>> /\ Truthy(prNumber[1])

\* the line of the stack table for entry number num
TableRow(entry, num, current) ==
    LET prRef == IF HasPr(entry.prNumber) THEN PrRef(entry.prNumber) ELSE <<"(","p","e","n","d","i","n","g",")">>
        title == entry.commit.subject
    IN  IF current
        THEN <<"|"," ">> \o NumToString(num) \o <<" ","|"," ","*","*">> \o prRef \o <<"*","*"," ","|"," ","*","*">> \o title \o <<" ","(","t","h","i","s"," ","P","R",")","*","*"," ","|">>
        ELSE <<"|"," ">> \o NumToString(num) \o <<" ","|"," ">> \o prRef \o <<" ","|"," ">> \o title \o <<" ","|">>

\* the Prev / Next line, <<>> when the entry has no neighbour; the two
\* arrow emoji are written <- and ->
NavLine(stk, index) ==
    LET n == Len(stk.entries)
        ref(entry) == IF HasPr(entry.prNumber) THEN PrRef(entry.prNumber)
                      ELSE entry.branchName
        prev == IF index > 0 THEN <<<<"<","-"," ","P","r","e","v",":"," ">> \o ref(stk.entries[index])>> ELSE <<>>
        next == IF index < n - 1
                THEN <<<<"N","e","x","t",":"," ">> \o ref(stk.entries[index + 2]) \o <<" ","-",">">>>> ELSE <<>>
        navParts == prev \o next
    IN  IF Len(navParts) = 0 THEN <<>>
        ELSE IF Len(navParts) = 1 THEN <<navParts[1], <<>>>>
        ELSE <<navParts[1] \o <<" ","|"," ">> \o navParts[2], <<>>>>

\* the line about the stack this one depends on
DependencyLines(stk) ==
    IF stk.dependsOn = <<>> THEN <<>>
    ELSE LET dep == stk.dependsOn[1]
             depPr == IF HasPr(dep.prNumber) THEN PrRef(dep.prNumber) ELSE dep.topBranch
         IN  <<<<">"," ","T","h","i","s"," ","s","t","a","c","k"," ","d","e","p","e","n","d","s"," ","o","n"," ","*","*">> \o dep.stackName \o <<"*","*"," ","(">> \o depPr \o <<")">>, <<>>>>

\* generatePRBody(stack, currentIndex, originalBody); originalBody absent
\* is the empty string, which the code treats alike
generatePRBody(stk, index, originalBody) ==
    LET header == <<StartMarker, <<"#","#"," ","S","t","a","c","k">>, <<>>>>
        table == <<<<"|"," ","#"," ","|"," ","P","R"," ","|"," ","T","i","t","l","e"," ","|">>, <<"|","-","-","-","|","-","-","-","-","-","|","-","-","-","-","-","-","-","|">>>>
                 \o [i \in 1..Len(stk.entries) |->
                        TableRow(stk.entries[i], i, i - 1 = index)]
                 \o << <<>> >>
        footer == <<<<"-","-","-">>, EndMarker>>
        commitBody == IF index + 1 \in 1..Len(stk.entries)
                      THEN Trim(stripStackerTrailers(stk.entries[index + 1].commit.body))
                      ELSE <<>>
        commitLines == IF commitBody # <<>> THEN << <<>>, commitBody >> ELSE <<>>
        cleanedBody == removeStackerSection(originalBody)
        originalLines == IF originalBody # <<>> /\ Trim(cleanedBody) # <<>>
                         THEN << <<>>, cleanedBody >> ELSE <<>>
    IN  Join(header \o DependencyLines(stk) \o table \o NavLine(stk, index)
             \o footer \o commitLines \o originalLines)

(***************************************************************************)
(* The description of one PR, regenerated over and over                    *)
(***************************************************************************)
MaxRegenerations == 2

\* a commit as parseCommit gives it, from its message
BodyCommit(sha, commitMessage) == parseCommit([sha |-> sha, message |-> commitMessage])

BodyEntry(sha, commitMessage, branchName, prNumber, targetBranch) ==
    [commit |-> BodyCommit(sha, commitMessage), branchName |-> branchName,
     prNumber |-> prNumber, targetBranch |-> targetBranch]

\* commit messages: a subject only; a subject and text; with trailers
BodyMessages ==
    { <<"A">>, <<"A","\n","\n","w","h","y">>, <<"A","\n","\n","S","t","a","c","k","e","r","-","B","r","a","n","c","h",":"," ","s","t","a","c","k","/","f","/","1","\n","S","t","a","c","k","e","r","-","P","R",":"," ","1">> }

\* stacks of one and two entries, with and without PR numbers and dependency
BodyStacks ==
    { [name |-> FeatureBranch, target |-> Main, dependsOn |-> dep,
       entries |-> <<BodyEntry(2, m, BranchF1, pr, Main)>>] :
          m \in BodyMessages, pr \in {<<>>, <<1>>},
          dep \in {<<>>, <<[stackName |-> <<"o">>, topBranch |-> BranchO2,
                            prNumber |-> <<>>, autoDetected |-> TRUE]>>} }
    \cup
    { [name |-> FeatureBranch, target |-> Main, dependsOn |-> <<>>,
       entries |-> <<BodyEntry(2, m, BranchF1, <<1>>, Main),
                     BodyEntry(3, <<"B">>, BranchF2, pr, BranchF1)>>] :
          m \in BodyMessages, pr \in {<<>>, <<2>>} }

\* descriptions a PR can have before: none; text; text with spaces around;
\* an earlier stacker block followed by text; text around such a block
OriginalBodies ==
    { <<>>, <<"N","o","t","e","s">>, <<" ","N","o","t","e","s","\n">>, <<"<","!","-","-"," ","s","t","a","c","k","e","r",":","s","t","a","r","t"," ","-","-",">","\n","o","l","d","\n","<","!","-","-"," ","s","t","a","c","k","e","r",":","e","n","d"," ","-","-",">","\n","\n","N","o","t","e","s">>, <<"I","n","t","r","o","\n","<","!","-","-"," ","s","t","a","c","k","e","r",":","s","t","a","r","t"," ","-","-",">","\n","o","l","d","\n","<","!","-","-"," ","s","t","a","c","k","e","r",":","e","n","d"," ","-","-",">","\n","N","o","t","e","s">> }

InitBody ==
    /\ IdleTrailers
    /\ IdleSubmit
    /\ IdleRewrite
    /\ IdleLand
    /\ chain = <<>>
    /\ currentBranch = FeatureBranch
    /\ prs = <<>>
    /\ optBase = <<>>
    /\ target = Main
    /\ stack \in BodyStacks
    /\ prevStack = <<>>
    /\ builds = 0
    /\ unchanged = FALSE
    /\ dirty = FALSE
    /\ prBody \in OriginalBodies
    /\ prevBody = <<>>
    /\ currentIndex \in 0..(Len(stack.entries) - 1)
    /\ regenerations = 0

\* submit.ts:199-200: the description of the PR is read and replaced by
\* generatePRBody(stack, i, existingPR.body)
RegenerateBody ==
    /\ regenerations < MaxRegenerations
    /\ regenerations' = regenerations + 1
    /\ prevBody' = prBody
    /\ prBody' = generatePRBody(stack, currentIndex, prBody)
    /\ UNCHANGED <<trailerVars, envVars, buildVars, submitVars, rewriteVars, landVars,
                   currentIndex>>

NextBody == RegenerateBody

SpecBody == InitBody /\ [][NextBody]_vars

(***************************************************************************)
(* C20: regenerating the description of a PR from a regenerated            *)
(* description gives the same text:                                        *)
(* generatePRBody(stack, i, generatePRBody(stack, i, b))                   *)
(*     = generatePRBody(stack, i, b).                                      *)
(***************************************************************************)
C20_BodyFixedPoint ==
    regenerations >= 2 => prBody = prevBody

(***************************************************************************)
(* Commands on ranges that may be empty                                    *)
(***************************************************************************)
\* histories of at most one commit above the merge base; --base may name
\* the head itself
ShortChains ==
    { <<b>> : b \in {BasePlain, BaseOnOtherStack} }
    \cup { <<BasePlain, m>> : m \in StackMessages }

\* what the review service answers about a PR without checks: it can be
\* merged, or it has conflicts
PlainPrData ==
    { d \in PrDataChoices : d.statusCheckRollup = <<>> /\ d.reviewDecision = "" }

InitEmpty ==
    /\ IdleTrailers
    /\ IdleBuild
    /\ IdleRewrite
    /\ IdleBody
    /\ \E ms \in ShortChains : chain = WithShas(ms)
    /\ currentBranch = FeatureBranch
    /\ \E service \in Services : prs = service.prs /\ prBase = service.prBase
    /\ optBase \in {<<>>, <<Len(chain)>>}
    /\ target = Main
    /\ rebase = <<>>
    /\ remoteBranches = RemoteOf(SubSeq(chain, 2, Len(chain)))
    /\ nextSha = Len(chain) + 1
    /\ gitLog = <<>>
    /\ lastCommand = ""
    /\ before = <<>>
    /\ commands = 0
    /\ prData \in PlainPrData
    /\ force = FALSE
    /\ dryRun \in BOOLEAN
    /\ tracking = remoteBranches
    /\ pushes = <<>>
    /\ landPos = 0
    /\ merged = {}
    /\ moves = 0
    /\ all = FALSE

NextEmpty ==
    \/ Submit
    \/ Edit
    \/ Land

SpecEmpty == InitEmpty /\ [][NextEmpty]_vars

\* the range base..HEAD of history ch holds no commit
EmptyRange(ch) == RangeBase(optBase) >= Len(ch)

(***************************************************************************)
(* C21: over an empty commit range buildStack returns a stack without      *)
(* entries, and submit, land and edit return without an error and without  *)
(* issuing any rewrite, branch creation, push, PR create/update or merge:  *)
(* no call is logged and the branch, the review service and the remote     *)
(* are as the command found them.                                          *)
(***************************************************************************)
C21_EmptyRangeNothingToDo ==
    /\ EmptyRange(chain) => buildStack(optBase, target).entries = <<>>
    /\ (lastCommand \in {"submit", "edit", "land"} /\ EmptyRange(before.chain)) =>
          /\ gitLog = <<>>
          /\ chain = before.chain
          /\ rebase = before.rebase
          /\ pushes = <<>>
          /\ lastCommand = "land" => reported = <<>> /\ merged = {} /\ stack.entries = <<>>

\* submit, then edit, then land have run on an empty range
C21_Witness ==
    /\ lastCommand = "land"
    /\ EmptyRange(before.chain)
    /\ stack # <<>>
    /\ stack.entries = <<>>
    /\ gitLog = <<>>

(***************************************************************************)
(* C22: in every stack buildStack returns the branch names of the entries  *)
(* are pairwise distinct and no entry targets its own branch, also when    *)
(* commits with a branch trailer and commits with a generated name are     *)
(* mixed in the range.  stack is the stack the last command built; its    *)
(* branch names and targets are those buildStack gave it.                  *)
(***************************************************************************)
C22_BranchNamesDistinct ==
    stack # <<>> =>
    LET entries == stack.entries IN
    /\ \A i, j \in 1..Len(entries) :
          i # j => entries[i].branchName # entries[j].branchName
    /\ \A i \in 1..Len(entries) : entries[i].targetBranch # entries[i].branchName

(***************************************************************************)
(* Submit on commits that carry trailers of an earlier place in a stack    *)
(***************************************************************************)
\* a commit never submitted; a commit submitted as the first of a stack
\* that depended on stack o
CarriedMessages ==
    { <<"A">>, <<"X","\n","\n","S","t","a","c","k","e","r","-","B","r","a","n","c","h",":"," ","s","t","a","c","k","/","f","/","1","\n","S","t","a","c","k","e","r","-","D","e","p","e","n","d","s","-","O","n",":"," ","o">> }

CarriedChains ==
    { <<b>> \o r : b \in {BasePlain, BaseOnOtherStack},
                   r \in SeqsUpTo(CarriedMessages, MaxStackCommits) \ {<<>>} }

InitCarried ==
    /\ IdleTrailers
    /\ IdleBuild
    /\ \E ms \in CarriedChains : chain = WithShas(ms)
    /\ currentBranch = FeatureBranch
    /\ \E service \in Services : prs = service.prs /\ prBase = service.prBase
    /\ optBase = <<>>
    /\ target = Main
    /\ rebase = <<>>
    /\ remoteBranches = <<>>
    /\ nextSha = Len(chain) + 1
    /\ gitLog = <<>>
    /\ lastCommand = ""
    /\ before = <<>>
    /\ commands = 0
    /\ IdleRewrite
    /\ IdleLand
    /\ IdleBody

SpecCarried == InitCarried /\ [][NextSubmit]_vars

\* the run of the last submit rewrote the commits
Synchronized ==
    /\ SubmitSucceeded
    /\ \E k \in 1..Len(gitLog) : gitLog[k].cmd = "rebase -i"

(***************************************************************************)
(* C23: after a synchronization the Stacker trailers of the commit of      *)
(* every entry are exactly the target trailers: the branch name, the PR    *)
(* number when the entry has one, and the name of the stack depended on    *)
(* for the first entry of a stack that has a dependency, and no others.    *)
(***************************************************************************)
C23_TrailersAreTargetTrailers ==
    Synchronized =>
        \A i \in 1..Len(stack.entries) :
            getMergeBase + i <= Len(chain) =>
                MapPairs(getStackerTrailers(chain[getMergeBase + i].message))
                    = MapPairs(TargetTrailers(
                          RewordList(stack.entries, EntryPrNumbers(stack.entries),
                                     stack.dependsOn)[i]))

(***************************************************************************)
(* The terminal trailer block, as each function of the codec locates it    *)
(***************************************************************************)
\* the trailers of the block the backward scan of setTrailers finds
SetBlock(commitMessage) ==
    LET lines == Split(commitMessage) IN
    ExistingTrailers(lines, SetScan(lines, Len(lines), Len(lines) + 1), <<>>)

\* the keys of the lines stripStackerTrailers takes for trailers it keeps
StripKept(commitMessage) ==
    LET lines == Split(commitMessage)
        kept == StripScan(lines, Len(lines), FALSE, <<>>)[2]
    IN  {TrailerKey(kept[i]) : i \in 1..Len(kept)}

(***************************************************************************)
(* C24: parseTrailers, setTrailers and stripStackerTrailers locate the     *)
(* same terminal trailer block of the message they are applied to: the     *)
(* backward scan ends at the first non-blank line that is not of trailer   *)
(* shape, so parseTrailers reports exactly the trailers of the block       *)
(* setTrailers finds (of a repeated key, the last value in forward order), *)
(* and stripStackerTrailers keeps exactly the unreserved keys of it.       *)
(***************************************************************************)
C24_SameTerminalBlock ==
    LastOp # "none" =>
        /\ MapPairs(parseTrailers(previous)) = MapPairs(SetBlock(previous))
        /\ StripKept(previous) = MapKeys(FilterNotPrefixed(SetBlock(previous)))

(***************************************************************************)
(* C25: setTrailers never consumes the subject.  For every message m with  *)
(* a non-empty first line and every mapping t, the first line of           *)
(* setTrailers(m, t) is the first line of m, also when the message is one  *)
(* paragraph whose subject has the shape Key: Value; for a message of one  *)
(* line the new block follows the subject after one blank line.            *)
(***************************************************************************)
C25_SetKeepsSubject ==
    (LastOp = "set" /\ Split(previous)[1] # <<>>) =>
        /\ Split(message)[1] = Split(previous)[1]
        /\ (Len(Split(previous)) = 1 /\ newTrailers # <<>>) =>
              message = Join(<<previous, <<>>>> \o TrailerLines(newTrailers))

\* a line of trailer shape whose key has the reserved prefix
ReservedLine(line) == TrailerMatch(line) /\ StartsWith(TrailerKey(line), TRAILER_PREFIX)

\* the text of a message that is the commit's own: its non-blank lines
\* that are not reserved-prefix trailer lines, in order
OwnText(commitMessage) ==
    SelectSeq(Split(commitMessage), LAMBDA line : line # <<>> /\ ~ReservedLine(line))

(***************************************************************************)
(* C26: stripStackerTrailers changes nothing outside the trailer block.    *)
(* Every line of the message that is not a reserved-prefix trailer line    *)
(* (subject, body text, non-trailer lines after or between trailer-shaped  *)
(* lines) is in the result, in the same order; blank lines are left out    *)
(* of the comparison.                                                      *)
(***************************************************************************)
C26_StripKeepsOwnText ==
    LastOp = "strip" => OwnText(message) = OwnText(previous)

(***************************************************************************)
(* The description of an existing PR through one submit without            *)
(* --keep-body: phase 4 rewrites it from the description it reads, phase 6 *)
(* writes the cross-links again                                            *)
(***************************************************************************)
InitDescribe ==
    /\ IdleTrailers
    /\ IdleSubmit
    /\ IdleRewrite
    /\ IdleLand
    /\ chain = <<>>
    /\ currentBranch = FeatureBranch
    /\ prs = <<>>
    /\ optBase = <<>>
    /\ target = Main
    /\ stack \in BodyStacks
    /\ prevStack = <<>>
    /\ builds = 0
    /\ unchanged = FALSE
    /\ dirty = FALSE
    /\ currentIndex \in { i \in 0..(Len(stack.entries) - 1) :
                             HasPr(stack.entries[i + 1].prNumber) }
    /\ prBody \in OriginalBodies
    /\ prevBody = prBody
    /\ regenerations = 0

\* submit.ts:193-211: the PR exists; its description is read and replaced
\* by generatePRBody(stack, i, existingPR.body)
UpdateExistingPR ==
    /\ regenerations = 0
    /\ regenerations' = 1
    /\ prBody' = generatePRBody(stack, currentIndex, prBody)
    /\ UNCHANGED <<trailerVars, envVars, buildVars, submitVars, rewriteVars, landVars,
                   prevBody, currentIndex>>

\* submit.ts:268-276: the description of every entry that has a PR is
\* replaced by generatePRBody(stack, i), no original body given
UpdateCrossLinks ==
    /\ regenerations = 1
    /\ regenerations' = 2
    /\ prBody' = generatePRBody(stack, currentIndex, <<>>)
    /\ UNCHANGED <<trailerVars, envVars, buildVars, submitVars, rewriteVars, landVars,
                   prevBody, currentIndex>>

NextDescribe ==
    \/ UpdateExistingPR
    \/ UpdateCrossLinks

SpecDescribe == InitDescribe /\ [][NextDescribe]_vars

\* the free-form text of a description: what stands outside the stacker block
FreeText(body) == Trim(removeStackerSection(body))

(***************************************************************************)
(* C27: submit preserves externally written description text.  After each  *)
(* body update of a submit without keep-body, the body of an already       *)
(* existing PR still contains the free-form text that stood outside the    *)
(* stacker block in its description before the submit (prevBody).          *)
(***************************************************************************)
C27_FreeTextPreserved ==
    (regenerations >= 1 /\ FreeText(prevBody) # <<>>) =>
        IndexOf(prBody, FreeText(prevBody)) # -1

\* the positions of the log at which command cmd was issued
LogPositions(cmd) == { k \in 1..Len(gitLog) : gitLog[k].cmd = cmd }

(***************************************************************************)
(* C28: land ordering.  In every land run on a stack of at least two       *)
(* entries whose second entry has a PR, a merge of the bottom PR is issued *)
(* only after the update of the second PR's base to the land target (the   *)
(* top branch of the stack depended on, else the target) has completed;    *)
(* when that update fails no merge is issued.                              *)
(***************************************************************************)
C28_BaseUpdatedBeforeMerge ==
    (lastCommand = "land" /\ stack # <<>> /\ NextBaseUpdate(stack) # <<>>) =>
        /\ \A k \in LogPositions("pr merge") :
              /\ \E j \in 1..(k - 1) :
                    gitLog[j] = LogEntry("pr edit", LandTarget(stack),
                                         NextBaseUpdate(stack)[1], TRUE)
              /\ MapGet(prBase, NextBaseUpdate(stack)[1]) = <<LandTarget(stack)>>
        /\ (\E j \in LogPositions("pr edit") : ~gitLog[j].ok)
              => LogPositions("pr merge") = {}

\* the bottom PR of a stack on top of another stack has been merged, the
\* base of the second PR being the other stack's top branch
C28_Witness ==
    /\ lastCommand = "land"
    /\ stack # <<>>
    /\ NextBaseUpdate(stack) # <<>>
    /\ stack.dependsOn # <<>>
    /\ LandTarget(stack) = BranchO2
    /\ \E k \in LogPositions("pr merge") : gitLog[k].ok
    /\ merged # {}

\* every commit of the stack the last submit left carries the entry's
\* branch name and the entry's PR number as trailers
TrailersCarried ==
    \A i \in 1..Len(stack.entries) :
        /\ RangeBase(optBase) + i <= Len(chain)
        /\ LET carried == getStackerTrailers(chain[RangeBase(optBase) + i].message) IN
           /\ MapGet(carried, TRAILER_KEY_BRANCH) = <<stack.entries[i].branchName>>
           /\ stack.entries[i].prNumber # <<>>
           /\ MapGet(carried, TRAILER_KEY_PR)
                  = <<NumToString(stack.entries[i].prNumber[1])>>

(***************************************************************************)
(* C29: submit reaches a fixed point.  Immediately after a successful      *)
(* submit every commit of the stack carries Stacker-Branch equal to its    *)
(* entry's branch name and Stacker-PR equal to its entry's PR number, and  *)
(* a second submit on the unchanged repository and review service rewrites *)
(* no commit and pushes no branch.                                         *)
(***************************************************************************)
C29_SubmitFixedPoint ==
    [][SubmitSucceeded =>
          /\ TrailersCarried
          /\ lastCommand' = "submit" =>
                /\ chain' = chain
                /\ \A k \in 1..Len(gitLog') : gitLog'[k].cmd \notin {"rebase -i", "push"}]_vars

\* ---------------------------------------------------------------------
\* land --all
\* ---------------------------------------------------------------------

\* a third commit of the branch, submitted as PR 3
LandThird ==
    <<"F","\n","\n","S","t","a","c","k","e","r","-","B","r","a","n","c","h",":"," ","s","t","a","c","k","/","f","/","3","\n","S","t","a","c","k","e","r","-","P","R",":"," ","3">>

\* stacks of one, two and three submitted commits; three commits the second
\* of which was never submitted; and three, the service not knowing PR 3
LandAllRepos ==
    { [messages |-> <<BasePlain, LandMessages.first>>,
       prs |-> <<<<BranchF1, 1>>>>, prBase |-> <<<<1, Main>>>>],
      [messages |-> <<BasePlain, LandMessages.first, LandMessages.second>>,
       prs |-> <<<<BranchF1, 1>>, <<BranchF2, 2>>>>,
       prBase |-> <<<<1, Main>>, <<2, BranchF1>>>>],
      [messages |-> <<BasePlain, LandMessages.first, LandMessages.second, LandThird>>,
       prs |-> <<<<BranchF1, 1>>, <<BranchF2, 2>>, <<BranchF3, 3>>>>,
       prBase |-> <<<<1, Main>>, <<2, BranchF1>>, <<3, BranchF2>>>>],
      [messages |-> <<BasePlain, LandMessages.first, LandMessages.plain, LandThird>>,
       prs |-> <<<<BranchF1, 1>>, <<BranchF3, 3>>>>,
       prBase |-> <<<<1, Main>>, <<3, BranchF1>>>>],
      [messages |-> <<BasePlain, LandMessages.first, LandMessages.second, LandThird>>,
       prs |-> <<<<BranchF1, 1>>, <<BranchF2, 2>>>>,
       prBase |-> <<<<1, Main>>, <<2, BranchF1>>>>] }

InitLandAll ==
    /\ IdleTrailers
    /\ IdleBuild
    /\ IdleRewrite
    /\ IdleBody
    /\ \E repo \in LandAllRepos :
          /\ chain = WithShas(repo.messages)
          /\ prs = repo.prs
          /\ prBase = repo.prBase
    /\ currentBranch = FeatureBranch
    /\ optBase = <<>>
    /\ target = Main
    /\ rebase = <<>>
    /\ remoteBranches = RemoteOf(SubSeq(chain, 2, Len(chain)))
    /\ nextSha = Len(chain) + 1
    /\ gitLog = <<>>
    /\ lastCommand = ""
    /\ before = <<>>
    /\ commands = 0
    /\ prData \in PlainPrData
    /\ force = FALSE
    /\ dryRun \in BOOLEAN
    /\ tracking = remoteBranches
    /\ pushes = <<>>
    /\ landPos = 0
    /\ merged = {}
    /\ moves = 0
    /\ all \in BOOLEAN

NextLandAll ==
    \/ NextLand
    \/ LandAgain

\* land and land --all. The process runs on: a round that has begun takes
\* its next step. For LandFinish and LandAgain weak fairness is written
\* with the position of the step in place of ENABLED, the step being
\* possible exactly there
SpecLandAll ==
    /\ InitLandAll
    /\ [][NextLandAll]_vars
    /\ WF_vars(LandFetchCheckout)
    /\ WF_vars(LandRebasePush)
    /\ ([]<>(pc # "landFinish") \/ []<><<LandFinish>>_vars)
    /\ ([]<>(pc # "landAll") \/ []<><<LandAgain>>_vars)

\* the PRs the run has merged, in the order of the merges
MergedPrs ==
    LET merges == SelectSeq(gitLog, LAMBDA e : e.cmd = "pr merge" /\ e.ok) IN
    [k \in 1..Len(merges) |-> merges[k].sha]

\* the PR trailers of the commits the run started with, bottom first
StartPrs ==
    [k \in 1..(Len(before.chain) - getMergeBase) |->
        MapGet(getStackerTrailers(before.chain[getMergeBase + k].message), TRAILER_KEY_PR)]

\* at every moment of a land run the merges done so far are those of the
\* first commits of the stack the run started with, bottom first and one
\* each; an error ends the run; and a run of land --all that ends without
\* error has merged the whole stack
LandsBottomUp ==
    lastCommand = "land" =>
        /\ Len(MergedPrs) <= Len(StartPrs)
        /\ \A k \in 1..Len(MergedPrs) : StartPrs[k] = <<NumToString(MergedPrs[k])>>
        /\ reported # <<>> => pc = "exit"
        /\ (pc = "exit" /\ reported = <<>> /\ all /\ ~dryRun /\ StartPrs # <<>>)
              => Len(MergedPrs) = Len(StartPrs)

\* C30: land --all terminates and lands bottom-up: a run on a stack of N
\* entries merges at most N PRs, the k-th merge being the PR of the k-th
\* commit from the bottom, no round merges more than one PR, the run ends
\* at the first failing round or after the round on a single entry, and
\* every run that goes on to further steps reaches its end
C30_LandAllBottomUp ==
    /\ []LandsBottomUp
    /\ [][Len(MergedPrs') <= Len(MergedPrs) + 1 \/ gitLog = <<>> \/ pc = "exit"]_vars
    /\ (pc \notin {"", "exit"}) ~> (pc = "exit")

\* land --all has landed a stack of three entries in three rounds
C30_Witness ==
    /\ all
    /\ lastCommand = "land"
    /\ pc = "exit"
    /\ reported = <<>>
    /\ Len(StartPrs) = 3
    /\ MergedPrs = <<1, 2, 3>>

====
